---- MODULE Spec2Model ----
(***************************************************************************)
(* Model of the environment orchestration core of the Prakasa / Parallax   *)
(* Windows worker: the command-sequence runner, the pip and project        *)
(* components, the system checkers (OS, GPU, driver) and the check /       *)
(* install commands' aggregation of component results into exit codes.     *)
(***************************************************************************)
EXTENDS Integers, Sequences, FiniteSets, TLC

VARIABLES
    op,              \* the operation under execution
    pc,              \* its position: "start", "pip.install", "pip.upgrade", "seq", "seq.ret", "done"
    proxy_url,       \* ExecutionContext::GetProxyUrl()
    pipReply,        \* what the subsystem answers to "pip --version"
    projHost,        \* what the subsystem answers to the project probes when the operation starts
    commands,        \* the (name, command, timeout, realtime) tuples handed to the runner
    step,            \* index of the runner's next step
    cmdLog,          \* every external command issued so far, in order, with its exit code
    is_update_mode,  \* ParallaxProjectInstaller::Install's local
    seqResult,       \* what ExecuteCommandSequence returned
    result,          \* the ComponentResult the operation returned
    sysChecker,      \* the system checker under execution (OS, GPU, driver)
    sysProbe,        \* what the host answers to that checker's queries
    sysResult,       \* the ComponentResult its Check returned
    cliCmd,          \* the command under execution: "check" or "install"
    cliPc,           \* its position: "start", "aggregated", "done"
    envResult,       \* the EnvironmentResult the installer handed back
    cliVerdict,      \* what CheckAllComponents / InstallAllComponents returned
    cliExit,         \* the CommandResult of ExecuteImpl, the process exit code
    hostFs,          \* the subsystem's files: project directories, packages, shell profile
    hostPlan,        \* the project operations still to run on that subsystem, in order
    hostRuns,        \* the operations run so far, each with its result, commands and files after
    runCmd,          \* the model command under execution: "run", "join" or "chat"
    runArgs,         \* the arguments the user supplied to it
    runEnv,          \* what the host answers: proxy, subsystem availability, exit code
    runPc,           \* its position: "start", "done"
    runExec,         \* what Execute ran: the command line handed to the subsystem, or its stages
    runExit,         \* the CommandResult of Execute
    config_values_,  \* ConfigManager's map from key to value
    config_file,     \* the configuration file at config_path_: whether it exists, its lines
    cfgPc,           \* the configuration store's position: "unbuilt", "ready"
    cfgLog           \* the store's operations so far, in order

instVars == <<op, pc, proxy_url, pipReply, projHost, commands, step, cmdLog,
              is_update_mode, seqResult, result>>
sysVars == <<sysChecker, sysProbe, sysResult>>
cliVars == <<cliCmd, cliPc, envResult, cliVerdict, cliExit>>
hostVars == <<hostFs, hostPlan, hostRuns>>
runVars == <<runCmd, runArgs, runEnv, runPc, runExec, runExit>>
cfgVars == <<config_values_, config_file, cfgPc, cfgLog>>
moreVars == <<hostVars, runVars, cfgVars>>

vars == <<instVars, sysVars, cliVars, moreVars>>

-----------------------------------------------------------------------------
(* Bounds of the model *)

\* longest step list handed to the runner directly
MaxSteps == 3
\* longest output of the commit-count query, in characters
MaxOut == 2

RECURSIVE SeqsUpTo(_, _)
SeqsUpTo(S, n) ==
    IF n = 0 THEN {<<>>}
    ELSE LET shorter == SeqsUpTo(S, n - 1)
         IN  shorter \cup {Append(s, x) : s \in {t \in shorter : Len(t) = n - 1}, x \in S}

-----------------------------------------------------------------------------
(* Component Result Model *)

kSuccess == "Success"
kSkipped == "Skipped"
kFailed == "Failed"
kWarning == "Warning"
kInProgress == "InProgress"

InstallationStatus == {kSuccess, kSkipped, kFailed, kWarning, kInProgress}

NoResult == [status |-> "None", message |-> "", failure_code |-> 0]

CreateSuccessResult(msg) == [status |-> kSuccess, message |-> msg, failure_code |-> 0]
CreateSkippedResult(msg) == [status |-> kSkipped, message |-> msg, failure_code |-> 0]
CreateWarningResult(msg) == [status |-> kWarning, message |-> msg, failure_code |-> 0]
CreateFailureResult(msg, code) == [status |-> kFailed, message |-> msg, failure_code |-> code]

-----------------------------------------------------------------------------
(* Command Executor: exit codes and the log of issued commands *)

\* 0 success, 1 an ordinary failure, -1 the executor's timed-out sentinel
ExitCodes == {0, 1, -1}

\* the timeout of an ExecuteWSL call that passes none
DefaultTimeout == 0
\* WSLProcess::Execute takes no timeout
NoTimeout == -1

ProxyUrls == {"", "http://127.0.0.1:7890"}

\* KEY_PRAKASA_GIT_REPO_URL as configured
repo_url == "https://github.com/hetu-project/prakasa.git"

Issued(kind, cmd, via, timeout, code) ==
    [kind |-> kind, cmd |-> cmd, via |-> via, timeout |-> timeout, code |-> code]

\* Commands that change the subsystem: package installs, clone / pull / rm and
\* the profile edit.  "git fetch" (kind "fetch") only refreshes remote-tracking refs
\* and is kept apart.
MutatingKinds ==
    {"apt_install_pip", "pip_upgrade", "update_parallax", "remove_old_prakasa",
     "clone_prakasa", "install_python3_venv", "install_prakasa_base", "add_cuda_env"}

RECURSIVE CountMutating(_)
CountMutating(log) ==
    IF log = <<>> THEN 0
    ELSE (IF Head(log).kind \in MutatingKinds THEN 1 ELSE 0) + CountMutating(Tail(log))

-----------------------------------------------------------------------------
(* PipUpgradeManager *)

PipReplies ==
    {[code |-> 0, out |-> "pip 24.0 from /usr/lib/python3/dist-packages/pip (python 3.12)"],
     [code |-> 0, out |-> ""],
     [code |-> 127, out |-> ""]}

\* Outputs of a failing or succeeding package command, quoted in failure messages
CmdOutputs == {"", "E: Unable to locate package"}

\* a zero exit code of the version query taken as enough
PipPresentByExitCode(r) == r.code = 0

IsPipUpToDate(r) == r.code = 0 /\ r.out # ""

install_pip_cmd(p) ==
    IF p = "" THEN "apt-get install -y python3-pip"
    ELSE "apt-get -o Acquire::http::proxy=\"" \o p \o
         "\" -o Acquire::https::proxy=\"" \o p \o "\" install -y python3-pip"

upgrade_cmd(p) ==
    IF p = "" THEN "pip install --upgrade pip --break-system-packages --ignore-installed"
    ELSE "pip install --proxy " \o p \o
         " --upgrade pip --break-system-packages --ignore-installed"

PipVersionQuery == Issued("pip_version", "pip --version", "ExecuteWSL", DefaultTimeout, pipReply.code)

\* PipUpgradeManager::Check
PipCheck ==
    /\ op = "pip.Check" /\ pc = "start"
    /\ cmdLog' = Append(cmdLog, PipVersionQuery)
    /\ result' = IF IsPipUpToDate(pipReply)
                 THEN CreateSkippedResult("pip is available")
                 ELSE CreateFailureResult("pip is not installed", 24)
    /\ pc' = "done"
    /\ UNCHANGED <<sysVars, cliVars, moreVars, op, proxy_url, pipReply, projHost, commands, step, is_update_mode, seqResult>>

\* PipUpgradeManager::Install, up to the first mutating command
PipInstall_Begin ==
    /\ op = "pip.Install" /\ pc = "start"
    /\ cmdLog' = Append(cmdLog, PipVersionQuery)
    /\ pc' = IF ~IsPipUpToDate(pipReply) THEN "pip.install" ELSE "pip.upgrade"
    /\ UNCHANGED <<sysVars, cliVars, moreVars, op, proxy_url, pipReply, projHost, commands, step, is_update_mode,
                   seqResult, result>>

\* PipUpgradeManager::Install: the base-package install
PipInstall_InstallPip ==
    /\ op = "pip.Install" /\ pc = "pip.install"
    /\ \E install_code \in ExitCodes, install_output \in CmdOutputs :
          /\ cmdLog' = Append(cmdLog, Issued("apt_install_pip", install_pip_cmd(proxy_url),
                                             "ExecuteWSL", 300, install_code))
          /\ IF install_code # 0
             THEN /\ result' = CreateFailureResult(
                                   "Failed to install python3-pip: " \o install_output, 24)
                  /\ pc' = "done"
             ELSE /\ pc' = "pip.upgrade"
                  /\ UNCHANGED result
    /\ UNCHANGED <<sysVars, cliVars, moreVars, op, proxy_url, pipReply, projHost, commands, step, is_update_mode, seqResult>>

\* PipUpgradeManager::Install: the upgrade
PipInstall_Upgrade ==
    /\ op = "pip.Install" /\ pc = "pip.upgrade"
    /\ \E upgrade_code \in ExitCodes, upgrade_output \in CmdOutputs :
          /\ cmdLog' = Append(cmdLog, Issued("pip_upgrade", upgrade_cmd(proxy_url),
                                             "ExecuteWSL", 300, upgrade_code))
          /\ result' = IF upgrade_code # 0
                       THEN CreateFailureResult("Failed to upgrade pip: " \o upgrade_output, 24)
                       ELSE CreateSuccessResult("pip installed and upgraded successfully")
    /\ pc' = "done"
    /\ UNCHANGED <<sysVars, cliVars, moreVars, op, proxy_url, pipReply, projHost, commands, step, is_update_mode, seqResult>>

-----------------------------------------------------------------------------
(* Command-sequence runner *)

Step(name, cmd, timeout, use_realtime) ==
    [name |-> name, cmd |-> cmd, timeout |-> timeout, realtime |-> use_realtime]

pull_cmd(p) ==
    IF p = "" THEN "cd ~/prakasa && git pull"
    ELSE "cd ~/prakasa && ALL_PROXY=" \o p \o " git pull"

clone_cmd(p) ==
    "cd ~ && " \o (IF p # "" THEN "ALL_PROXY=" \o p \o " " ELSE "") \o "git clone " \o repo_url

install_venv_cmd(p) ==
    IF p = "" THEN "apt update && apt-get install -y python3-venv"
    ELSE "apt -o Acquire::http::proxy=\"" \o p \o "\" -o Acquire::https::proxy=\"" \o p \o
         "\" update && apt-get -o Acquire::http::proxy=\"" \o p \o
         "\" -o Acquire::https::proxy=\"" \o p \o "\" install -y python3-venv"

install_base_cmd(p) ==
    IF p = ""
    THEN "cd ~/prakasa && ([ -d ./venv ] || python3 -m venv ./venv) && source " \o
         "./venv/bin/activate " \o "&& pip install -e '.[gpu]'"
    ELSE "cd ~/prakasa && ([ -d ./venv ] || python3 -m venv ./venv) && " \o "source " \o
         "./venv/bin/activate && HTTP_PROXY=\"" \o p \o "\" HTTPS_PROXY=\"" \o p \o
         "\" pip install -e '.[gpu]'"

add_cuda_env_cmd ==
    "grep -q '/usr/local/cuda-12.8/bin' ~/.bashrc || " \o
    "echo 'export PATH=/usr/local/cuda-12.8/bin:$PATH' >> ~/.bashrc"

UpdateStep(p) == Step("update_parallax", pull_cmd(p), 300, FALSE)
RemoveStep == Step("remove_old_prakasa", "rm -rf ~/prakasa", 60, FALSE)
CloneStep(p) == Step("clone_prakasa", clone_cmd(p), 600, FALSE)
VenvStep(p) == Step("install_python3_venv", install_venv_cmd(p), 300, FALSE)
BaseStep(p) == Step("install_prakasa_base", install_base_cmd(p), 1800, TRUE)
CudaEnvStep == Step("add_cuda_env", add_cuda_env_cmd, 30, FALSE)

\* The steps a caller can hand to the runner
StepPool(p) == {UpdateStep(p), RemoveStep, CloneStep(p), VenvStep(p), BaseStep(p), CudaEnvStep}

StepNames == {s.name : s \in StepPool("")}

\* a treated-as-success timeout: only positive exit codes count as failure
StepFailedPositiveOnly(cmd_exit_code) == cmd_exit_code > 0

\* ExecuteCommandSequence: if (cmd_exit_code != 0)
StepFailed(cmd_exit_code) == cmd_exit_code # 0

\* the failure message names the operation's first step instead of the failing one
StepErrorMsgFirstStep(s) == "Failed at step '" \o commands[1].name \o "': " \o s.cmd

\* ExecuteCommandSequence: error_msg
StepErrorMsg(s) == "Failed at step '" \o s.name \o "': " \o s.cmd

\* One iteration of ExecuteCommandSequence's loop: run the step through the relay
\* or the plain executor, return Failed on a non-zero exit
ExecuteCommandSequence_Step ==
    /\ pc = "seq" /\ step <= Len(commands)
    /\ LET s == commands[step] IN
       \E cmd_exit_code \in ExitCodes :
          /\ cmdLog' = Append(cmdLog,
                         IF s.realtime
                         THEN Issued(s.name, s.cmd, "WSLProcess", NoTimeout, cmd_exit_code)
                         ELSE Issued(s.name, s.cmd, "ExecuteWSL", s.timeout, cmd_exit_code))
          /\ IF StepFailed(cmd_exit_code)
             THEN /\ seqResult' = CreateFailureResult(StepErrorMsg(s), 25)
                  /\ pc' = "seq.ret"
                  /\ step' = step
             ELSE /\ step' = step + 1
                  /\ UNCHANGED <<seqResult, pc>>
    /\ UNCHANGED <<sysVars, cliVars, moreVars, op, proxy_url, pipReply, projHost, commands, is_update_mode, result>>

\* ExecuteCommandSequence: the list is exhausted
ExecuteCommandSequence_Return ==
    /\ pc = "seq" /\ step > Len(commands)
    /\ seqResult' = CreateSuccessResult("Command sequence completed successfully")
    /\ pc' = "seq.ret"
    /\ UNCHANGED <<sysVars, cliVars, moreVars, op, proxy_url, pipReply, projHost, commands, step, cmdLog,
                   is_update_mode, result>>

\* A direct caller of the runner takes its result
Sequence_Finish ==
    /\ op = "sequence" /\ pc = "seq.ret"
    /\ result' = seqResult
    /\ pc' = "done"
    /\ UNCHANGED <<sysVars, cliVars, moreVars, op, proxy_url, pipReply, projHost, commands, step, cmdLog,
                   is_update_mode, seqResult>>

-----------------------------------------------------------------------------
(* ParallaxProjectInstaller *)

\* Replies to the import check "cd ~/parallax && [ -d ./venv ] && ... pip list | grep parallax"
ImportReplies ==
    {[code |-> 0, out |-> "parallax 0.1.0 /root/parallax"],
     [code |-> 0, out |-> ""],
     [code |-> 1, out |-> ""]}

\* Characters of the commit-count query's output
OutChars == {"0", "2", "-", "x", "\n"}

CountOutputs == SeqsUpTo(OutChars, MaxOut)

\* ::isspace
IsSpace(c) == c \in {" ", "\n", "\t", "\r"}

IsDigit(c) == c \in {"0", "1", "2", "3", "4", "5", "6", "7", "8", "9"}

DigitVal(c) ==
    CASE c = "0" -> 0 [] c = "1" -> 1 [] c = "2" -> 2 [] c = "3" -> 3 [] c = "4" -> 4
      [] c = "5" -> 5 [] c = "6" -> 6 [] c = "7" -> 7 [] c = "8" -> 8 [] c = "9" -> 9

\* std::remove_if(..., ::isspace) followed by erase
RemoveSpaces(str) == SelectSeq(str, LAMBDA c : ~IsSpace(c))

\* the leading run of decimal digits of str, as a number; n counts the digits read
RECURSIVE ReadDigits(_, _, _)
ReadDigits(str, acc, n) ==
    IF str # <<>> /\ IsDigit(Head(str))
    THEN ReadDigits(Tail(str), acc * 10 + DigitVal(Head(str)), n + 1)
    ELSE [value |-> acc, digits |-> n]

\* std::stoi: an optional sign, then at least one digit, the rest ignored;
\* ok = FALSE stands for the std::invalid_argument it throws
Stoi(str) ==
    LET signed == str # <<>> /\ Head(str) \in {"-", "+"}
        body   == IF signed THEN Tail(str) ELSE str
        r      == ReadDigits(body, 0, 0)
    IN  IF r.digits = 0 THEN [ok |-> FALSE, value |-> 0]
        ELSE [ok |-> TRUE,
              value |-> IF signed /\ Head(str) = "-" THEN 0 - r.value ELSE r.value]

\* a count of zero reported as an update
UpdateCountNonNegative(update_count) == update_count >= 0

\* HasParallaxProjectGitUpdates: return update_count > 0
UpdateCountPositive(update_count) == update_count > 0

\* ParallaxProjectInstaller::IsParallaxProjectInstalled on a reply
IsParallaxProjectInstalled(r) == r.code = 0 /\ r.out # ""

\* the count query believed although the fetch failed
HasUpdatesIgnoringFetch(h) ==
    IF h.revparse # 0 THEN FALSE
    ELSE IF h.revlist.code = 0 /\ h.revlist.out # <<>>
         THEN LET trimmed_output == RemoveSpaces(h.revlist.out)
              IN  IF trimmed_output # <<>>
                  THEN LET parsed == Stoi(trimmed_output)
                       IN  IF parsed.ok THEN UpdateCountPositive(parsed.value) ELSE FALSE
                  ELSE FALSE
         ELSE FALSE

\* ParallaxProjectInstaller::HasParallaxProjectGitUpdates on the host's replies
HasParallaxProjectGitUpdates(h) ==
    IF h.revparse # 0 THEN FALSE
    ELSE IF h.fetch # 0 THEN FALSE
    ELSE IF h.revlist.code = 0 /\ h.revlist.out # <<>>
         THEN LET trimmed_output == RemoveSpaces(h.revlist.out)
              IN  IF trimmed_output # <<>>
                  THEN LET parsed == Stoi(trimmed_output)
                       IN  IF parsed.ok THEN UpdateCountPositive(parsed.value) ELSE FALSE
                  ELSE FALSE
         ELSE FALSE

fetch_cmd(p) ==
    IF p = "" THEN "cd ~/prakasa && git fetch origin"
    ELSE "cd ~/prakasa && ALL_PROXY=" \o p \o " git fetch origin"

ImportQuery(r) ==
    Issued("import_check",
           "cd ~/parallax && [ -d ./venv ] && source ./venv/bin/activate && pip list | grep parallax",
           "ExecuteWSL", DefaultTimeout, r.code)

\* The commands HasParallaxProjectGitUpdates issues, in order
GitUpdateProbes(h, p) ==
    <<Issued("rev_parse", "cd ~/parallax && git rev-parse --is-inside-work-tree 2>/dev/null",
             "ExecuteWSL", 30, h.revparse)>>
    \o (IF h.revparse # 0 THEN <<>>
        ELSE <<Issued("fetch", fetch_cmd(p), "ExecuteWSL", 60, h.fetch)>>
             \o (IF h.fetch # 0 THEN <<>>
                 ELSE <<Issued("rev_list",
                               "cd ~/prakasa && git rev-list HEAD...origin/main --count 2>/dev/null",
                               "ExecuteWSL", 30, h.revlist.code)>>))

\* ParallaxProjectInstaller::Check
ProjectCheck ==
    /\ op = "project.Check" /\ pc = "start"
    /\ LET is_installed == IsParallaxProjectInstalled(projHost.import) IN
       /\ cmdLog' = cmdLog \o <<ImportQuery(projHost.import)>>
                           \o (IF is_installed THEN GitUpdateProbes(projHost, proxy_url)
                               ELSE <<>>)
       /\ result' = IF is_installed
                    THEN IF HasParallaxProjectGitUpdates(projHost)
                         THEN CreateWarningResult(
                                  "Parallax project is installed but has git updates available")
                         ELSE CreateSkippedResult(
                                  "Parallax project is already installed and up to date")
                    ELSE CreateFailureResult("Parallax project is not installed", 25)
    /\ pc' = "done"
    /\ UNCHANGED <<sysVars, cliVars, moreVars, op, proxy_url, pipReply, projHost, commands, step, is_update_mode, seqResult>>

\* Replies to "ls -la ~/parallax/.git 2>/dev/null || echo 'not found'"
LsReplies ==
    {[code |-> 0, out |-> "total 52 drwxr-xr-x 8 root root 4096 .git"],
     [code |-> 0, out |-> "not found"],
     [code |-> -1, out |-> ""]}

\* Replies to "cd ~/parallax && git branch 2>/dev/null || echo 'not git'"
BranchReplies ==
    {[code |-> 0, out |-> "* main"],
     [code |-> 0, out |-> "not git"],
     [code |-> -1, out |-> ""]}

\* check_dir_output.find("not found") == npos, check_git_output.find("not git") == npos
LacksMarker(out, marker) == out # marker

LsQuery(r) ==
    Issued("ls_git", "ls -la ~/parallax/.git 2>/dev/null || echo 'not found'",
           "ExecuteWSL", 30, r.code)

BranchQuery(r) ==
    Issued("git_branch", "cd ~/parallax && git branch 2>/dev/null || echo 'not git'",
           "ExecuteWSL", 30, r.code)

\* the toolkit path written before the project is installed
CommonStepsCudaFirst(update_mode, p) ==
    (IF ~update_mode THEN <<VenvStep(p), CudaEnvStep>> ELSE <<>>) \o <<BaseStep(p)>>

\* The tail every sequence shares: (fresh-only) venv prerequisite, project
\* install through the relay, (fresh-only) toolkit path
CommonSteps(update_mode, p) ==
    (IF ~update_mode THEN <<VenvStep(p)>> ELSE <<>>)
    \o <<BaseStep(p)>>
    \o (IF ~update_mode THEN <<CudaEnvStep>> ELSE <<>>)

\* ParallaxProjectInstaller::Install up to the call of the runner
ProjectInstall_Begin ==
    /\ op = "project.Install" /\ pc = "start"
    /\ LET is_installed == IsParallaxProjectInstalled(projHost.import) IN
       IF is_installed
       THEN /\ cmdLog' = cmdLog \o <<ImportQuery(projHost.import)>>
                                \o GitUpdateProbes(projHost, proxy_url)
            /\ IF ~HasParallaxProjectGitUpdates(projHost)
               THEN /\ result' = CreateSkippedResult(
                                     "Parallax project is already installed and up to date")
                    /\ pc' = "done"
                    /\ UNCHANGED <<commands, step, is_update_mode>>
               ELSE /\ is_update_mode' = TRUE
                    /\ commands' = <<UpdateStep(proxy_url)>> \o CommonSteps(TRUE, proxy_url)
                    /\ step' = 1
                    /\ pc' = "seq"
                    /\ UNCHANGED result
       ELSE /\ is_update_mode' = FALSE
            /\ step' = 1
            /\ pc' = "seq"
            /\ UNCHANGED result
            /\ \E ls \in LsReplies :
                  IF ls.code = 0 /\ LacksMarker(ls.out, "not found")
                  THEN \E br \in BranchReplies :
                          /\ cmdLog' = cmdLog \o <<ImportQuery(projHost.import), LsQuery(ls),
                                                   BranchQuery(br)>>
                          /\ commands' =
                                (IF br.code = 0 /\ LacksMarker(br.out, "not git")
                                 THEN <<UpdateStep(proxy_url)>>
                                 ELSE <<RemoveStep, CloneStep(proxy_url)>>)
                                \o CommonSteps(FALSE, proxy_url)
                  ELSE /\ cmdLog' = cmdLog \o <<ImportQuery(projHost.import), LsQuery(ls)>>
                       /\ commands' = <<CloneStep(proxy_url)>> \o CommonSteps(FALSE, proxy_url)
    /\ UNCHANGED <<sysVars, cliVars, moreVars, op, proxy_url, pipReply, projHost, seqResult>>

\* the result of the runner returned as the result of Install
ProjectInstall_VerifyTrusting ==
    /\ op = "project.Install" /\ pc = "seq.ret"
    /\ result' = seqResult
    /\ pc' = "done"
    /\ UNCHANGED <<sysVars, cliVars, moreVars, op, proxy_url, pipReply, projHost, commands, step,
                   is_update_mode, seqResult, cmdLog>>

\* ParallaxProjectInstaller::Install after the runner: return its failure, or
\* re-run the import check
ProjectInstall_Verify ==
    /\ op = "project.Install" /\ pc = "seq.ret"
    /\ IF seqResult.status # kSuccess
       THEN /\ result' = seqResult
            /\ UNCHANGED cmdLog
       ELSE \E r \in ImportReplies :
               /\ cmdLog' = Append(cmdLog, ImportQuery(r))
               /\ result' =
                     IF IsParallaxProjectInstalled(r)
                     THEN (IF is_update_mode
                           THEN CreateSuccessResult("Prakasa project updated successfully")
                           ELSE CreateSuccessResult("Prakasa project installed successfully"))
                     ELSE CreateFailureResult(
                              IF is_update_mode
                              THEN "Parallax project update completed but verification failed"
                              ELSE "Parallax project installation completed but verification failed",
                              25)
    /\ pc' = "done"
    /\ UNCHANGED <<sysVars, cliVars, moreVars, op, proxy_url, pipReply, projHost, commands, step,
                   is_update_mode, seqResult>>

-----------------------------------------------------------------------------
(* The component operations as a state machine *)

IdlePip == [code |-> 0, out |-> ""]
IdleHost == [import |-> [code |-> 1, out |-> ""], revparse |-> 0, fetch |-> 0,
             revlist |-> [code |-> 0, out |-> <<>>]]

ProjHosts ==
    [import : ImportReplies, revparse : {0, 128}, fetch : ExitCodes,
     revlist : [code : {0, 128}, out : CountOutputs]]

InstIdle ==
    /\ op = "none" /\ pc = "done" /\ proxy_url = ""
    /\ pipReply = IdlePip /\ projHost = IdleHost
    /\ commands = <<>> /\ step = 1 /\ cmdLog = <<>>
    /\ is_update_mode = FALSE /\ seqResult = NoResult /\ result = NoResult

SysIdle == sysChecker = "none" /\ sysProbe = <<>> /\ sysResult = NoResult

CliIdle ==
    /\ cliCmd = "none" /\ cliPc = "done"
    /\ envResult = [component_results |-> <<>>, reboot_required |-> FALSE]
    /\ cliVerdict = -1 /\ cliExit = -1

HostIdle == hostFs = <<>> /\ hostPlan = <<>> /\ hostRuns = <<>>

RunIdle ==
    /\ runCmd = "none" /\ runArgs = <<>> /\ runEnv = <<>>
    /\ runPc = "done" /\ runExec = <<>> /\ runExit = -1

CfgIdle ==
    /\ config_values_ = <<>> /\ config_file = <<>>
    /\ cfgPc = "none" /\ cfgLog = <<>>

MoreIdle == HostIdle /\ RunIdle /\ CfgIdle

Init ==
    /\ SysIdle /\ CliIdle /\ MoreIdle
    /\ proxy_url \in ProxyUrls
    /\ \/ /\ op = "sequence" /\ pc = "seq"
          /\ commands \in SeqsUpTo(StepPool(proxy_url), MaxSteps)
          /\ pipReply = IdlePip /\ projHost = IdleHost
       \/ /\ op \in {"pip.Check", "pip.Install"} /\ pc = "start"
          /\ commands = <<>>
          /\ pipReply \in PipReplies /\ projHost = IdleHost
       \/ /\ op \in {"project.Check", "project.Install"} /\ pc = "start"
          /\ commands = <<>>
          /\ pipReply = IdlePip /\ projHost \in ProjHosts
    /\ step = 1 /\ cmdLog = <<>> /\ is_update_mode = FALSE
    /\ seqResult = NoResult /\ result = NoResult

Next ==
    \/ PipCheck
    \/ PipInstall_Begin
    \/ PipInstall_InstallPip
    \/ PipInstall_Upgrade
    \/ ProjectCheck
    \/ ProjectInstall_Begin
    \/ ExecuteCommandSequence_Step
    \/ ExecuteCommandSequence_Return
    \/ Sequence_Finish
    \/ ProjectInstall_Verify

Spec == Init /\ [][Next]_vars

-----------------------------------------------------------------------------
(* Properties of the runner and of the pip and project components *)

\* The runner's part of the command log
SeqLog == SelectSeq(cmdLog, LAMBDA e : e.kind \in StepNames)

\* The message names the step: "Failed at step '<name>': ..." for some command text
MentionsStep(msg, name) ==
    \E p \in ProxyUrls : \E s \in StepPool(p) : msg = "Failed at step '" \o name \o "': " \o s.cmd

\* C1: the runner executes the steps once each and in list order, nothing after
\* the first step whose exit code is non-zero, and then returns Failed naming that step.
C1_RunnerStopsAtFirstFailure ==
    op \in {"sequence", "project.Install"} /\ pc \in {"seq", "seq.ret", "done"} =>
        LET n == Len(SeqLog) IN
        /\ n <= Len(commands)
        /\ \A i \in 1..n : /\ SeqLog[i].kind = commands[i].name
                           /\ SeqLog[i].cmd = commands[i].cmd
        /\ \A i \in 1..(n - 1) : SeqLog[i].code = 0
        /\ pc = "seq" => step = n + 1 /\ (n > 0 => SeqLog[n].code = 0)
        /\ (n > 0 /\ SeqLog[n].code # 0) =>
              /\ pc # "seq"
              /\ seqResult.status = kFailed
              /\ MentionsStep(seqResult.message, commands[n].name)
        /\ (pc # "seq" /\ seqResult.status = kFailed) => n > 0 /\ SeqLog[n].code # 0

\* C1 witness: a three-step list whose second step failed; the third never ran
C1_Witness ==
    /\ op = "sequence" /\ pc = "done"
    /\ Len(commands) = 3 /\ Len(cmdLog) = 2
    /\ cmdLog[1].code = 0 /\ cmdLog[2].code # 0
    /\ result.status = kFailed

\* C2: Install on an already-satisfied component (pip answers the version query;
\* the project is importable and has no remote updates) returns Skipped and issues
\* no mutating command.
C2_InstallOnSatisfiedSkips ==
    /\ (op = "pip.Install" /\ pc = "done" /\ IsPipUpToDate(pipReply)) =>
           result.status = kSkipped /\ CountMutating(cmdLog) = 0
    /\ (op = "project.Install" /\ pc = "done"
        /\ IsParallaxProjectInstalled(projHost.import)
        /\ ~HasParallaxProjectGitUpdates(projHost)) =>
           result.status = kSkipped /\ CountMutating(cmdLog) = 0

\* The commit divergence as the count query reports it, when it reports one
DivergenceKnown(h) == h.revlist.code = 0 /\ Stoi(RemoveSpaces(h.revlist.out)).ok
Divergence(h) == Stoi(RemoveSpaces(h.revlist.out)).value

\* The repository probe, the fetch and the count query all succeed
ProbesSucceed(h) == h.revparse = 0 /\ h.fetch = 0 /\ DivergenceKnown(h)

\* C10 as stated: Check is Skipped on importable + zero divergence, Warning on
\* importable + divergence > 0, Failed (25) when not importable, nothing else.
C10_CheckByDivergence ==
    op = "project.Check" /\ pc = "done" =>
        LET inst == IsParallaxProjectInstalled(projHost.import) IN
        /\ result.status \in {kSkipped, kWarning, kFailed}
        /\ (inst /\ DivergenceKnown(projHost) /\ Divergence(projHost) = 0) =>
               result = CreateSkippedResult("Parallax project is already installed and up to date")
        /\ (inst /\ DivergenceKnown(projHost) /\ Divergence(projHost) > 0) =>
               result.status = kWarning
        /\ ~inst => result.status = kFailed /\ result.failure_code = 25

\* C10 amended: Warning needs the repository probe, the fetch and the count query
\* to succeed with a count > 0; an importable project is Skipped in every other case.
C10_CheckByProbes ==
    op = "project.Check" /\ pc = "done" =>
        LET inst == IsParallaxProjectInstalled(projHost.import) IN
        /\ result.status \in {kSkipped, kWarning, kFailed}
        /\ (inst /\ ProbesSucceed(projHost) /\ Divergence(projHost) > 0) =>
               result = CreateWarningResult(
                            "Parallax project is installed but has git updates available")
        /\ (inst /\ ~(ProbesSucceed(projHost) /\ Divergence(projHost) > 0)) =>
               result = CreateSkippedResult("Parallax project is already installed and up to date")
        /\ ~inst => result = CreateFailureResult("Parallax project is not installed", 25)

\* C10 witness: a Check that found updates
C10_Witness ==
    /\ op = "project.Check" /\ pc = "done"
    /\ result.status = kWarning
    /\ Divergence(projHost) = 2

-----------------------------------------------------------------------------
(* The check and install commands: aggregation and exit codes *)

\* longest sequence of component results handed back by the installer
MaxResults == 3

\* enum class CommandResult
CmdSuccess == 0
CmdInvalidArgs == 1
CmdEnvironmentError == 2
CmdExecutionError == 3

\* The int CheckAllComponents and InstallAllComponents return
VerdictOk == 0
VerdictFailed == 1
VerdictReboot == 2
VerdictWarning == 3

ComponentResults == {[status |-> st] : st \in InstallationStatus}

EnvironmentResults ==
    [component_results : SeqsUpTo(ComponentResults, MaxResults), reboot_required : BOOLEAN]

\* CheckAllComponents' loop from index i on: stops at the first Failed result,
\* records a Warning seen before it
RECURSIVE CheckScan(_, _, _)
CheckScan(results, i, has_warnings) ==
    IF i > Len(results)
    THEN [has_failures |-> FALSE, has_warnings |-> has_warnings]
    ELSE IF results[i].status = kFailed
         THEN [has_failures |-> TRUE, has_warnings |-> has_warnings]
         ELSE IF results[i].status = kWarning
              THEN CheckScan(results, i + 1, TRUE)
              ELSE CheckScan(results, i + 1, has_warnings)

\* failures looked at before the reboot flag
CheckVerdictFailuresFirst(r) ==
    LET f == CheckScan(r.component_results, 1, FALSE)
    IN  IF f.has_failures THEN VerdictFailed
        ELSE IF r.reboot_required THEN VerdictReboot
        ELSE IF f.has_warnings THEN VerdictWarning
        ELSE VerdictOk

\* CheckCommand::CheckAllComponents, from the EnvironmentResult to the returned int
CheckAllComponents(r) ==
    LET f == CheckScan(r.component_results, 1, FALSE)
    IN  IF r.reboot_required THEN VerdictReboot
        ELSE IF f.has_failures THEN VerdictFailed
        ELSE IF f.has_warnings THEN VerdictWarning
        ELSE VerdictOk

\* warnings reported as an environment error
CheckExitWarningsFail(verdict) ==
    IF verdict = 0 THEN CmdSuccess ELSE CmdEnvironmentError

\* CheckCommand::ExecuteImpl, from CheckAllComponents' int to the CommandResult
CheckExit(verdict) ==
    IF verdict = 0 THEN CmdSuccess
    ELSE IF verdict = 2 THEN CmdEnvironmentError
    ELSE IF verdict = 3 THEN CmdSuccess
    ELSE CmdEnvironmentError

\* InstallAllComponents' loop from index i on: all_success
RECURSIVE InstallScan(_, _)
InstallScan(results, i) ==
    IF i > Len(results) THEN TRUE
    ELSE IF results[i].status = kFailed THEN FALSE
    ELSE InstallScan(results, i + 1)

\* failures looked at before the reboot flag
InstallVerdictFailuresFirst(r) ==
    IF ~InstallScan(r.component_results, 1) THEN VerdictFailed
    ELSE IF r.reboot_required THEN VerdictReboot
    ELSE VerdictOk

\* InstallCommand::InstallAllComponents, from the EnvironmentResult to the returned int
InstallAllComponents(r) ==
    LET all_success == InstallScan(r.component_results, 1)
    IN  IF r.reboot_required THEN VerdictReboot
        ELSE IF all_success THEN VerdictOk
        ELSE VerdictFailed

\* a pending reboot reported as an execution error
InstallExitRebootFails(verdict) ==
    IF verdict = 0 THEN CmdSuccess ELSE CmdExecutionError

\* InstallCommand::ExecuteImpl, from InstallAllComponents' int to the CommandResult
InstallExit(verdict) ==
    IF verdict = 0 THEN CmdSuccess
    ELSE IF verdict = 2 THEN CmdSuccess
    ELSE CmdExecutionError

\* CheckCommand::ExecuteImpl
CheckCommand_ExecuteImpl ==
    /\ cliCmd = "check" /\ cliPc = "start"
    /\ cliVerdict' = CheckAllComponents(envResult)
    /\ cliExit' = CheckExit(cliVerdict')
    /\ cliPc' = "done"
    /\ UNCHANGED <<instVars, sysVars, moreVars, cliCmd, envResult>>

\* InstallCommand::ExecuteImpl
InstallCommand_ExecuteImpl ==
    /\ cliCmd = "install" /\ cliPc = "start"
    /\ cliVerdict' = InstallAllComponents(envResult)
    /\ cliExit' = InstallExit(cliVerdict')
    /\ cliPc' = "done"
    /\ UNCHANGED <<instVars, sysVars, moreVars, cliCmd, envResult>>

InitCli ==
    /\ InstIdle /\ SysIdle /\ MoreIdle
    /\ cliCmd \in {"check", "install"} /\ cliPc = "start"
    /\ envResult \in EnvironmentResults
    /\ cliVerdict = -1 /\ cliExit = -1

NextCli ==
    \/ CheckCommand_ExecuteImpl
    \/ InstallCommand_ExecuteImpl

SpecCli == InitCli /\ [][NextCli]_vars

AnyFailed == \E i \in 1..Len(envResult.component_results) :
                 envResult.component_results[i].status = kFailed
AnyWarning == \E i \in 1..Len(envResult.component_results) :
                  envResult.component_results[i].status = kWarning

\* C3: CheckAllComponents' verdict is Reboot whenever reboot_required is set;
\* otherwise Failed if any result is Failed; otherwise Warning if any result is
\* Warning; otherwise Success.
C3_CheckAggregation ==
    cliCmd = "check" /\ cliPc = "done" =>
        cliVerdict = IF envResult.reboot_required THEN VerdictReboot
                     ELSE IF AnyFailed THEN VerdictFailed
                     ELSE IF AnyWarning THEN VerdictWarning
                     ELSE VerdictOk

\* C3 witness: a reboot is required while a component Failed after a Warning
C3_Witness ==
    /\ cliCmd = "check" /\ cliPc = "done"
    /\ envResult.reboot_required /\ AnyFailed /\ AnyWarning
    /\ cliVerdict = VerdictReboot

\* C4: check exits 0 exactly when no result is Failed and no reboot is required,
\* 2 when a result is Failed or a reboot is required, and never 1 or 3.
C4_CheckExitCode ==
    cliCmd = "check" /\ cliPc = "done" =>
        /\ cliExit = 0 <=> (~AnyFailed /\ ~envResult.reboot_required)
        /\ cliExit = 2 <=> (AnyFailed \/ envResult.reboot_required)
        /\ cliExit \notin {1, 3}

\* C4 witness: only warnings, exit code 0
C4_Witness ==
    /\ cliCmd = "check" /\ cliPc = "done"
    /\ AnyWarning /\ ~AnyFailed /\ ~envResult.reboot_required
    /\ cliExit = 0

C6_InstallRebootPrecedence ==
    cliCmd = "install" /\ cliPc = "done" =>
        /\ envResult.reboot_required => cliVerdict = 2
        /\ ~envResult.reboot_required => cliVerdict = IF AnyFailed THEN 1 ELSE 0

\* C6 witness: reboot required and a Failed component, verdict 2
C6_Witness ==
    /\ cliCmd = "install" /\ cliPc = "done"
    /\ envResult.reboot_required /\ AnyFailed
    /\ cliVerdict = 2

-----------------------------------------------------------------------------
(* Strings as sequences of characters, for the checks that search text *)

LowerCase == <<"a", "b", "c", "d", "e", "f", "g", "h", "i", "j", "k", "l", "m", "n", "o", "p", "q", "r", "s", "t", "u", "v", "w", "x", "y", "z">>
UpperCase == <<"A", "B", "C", "D", "E", "F", "G", "H", "I", "J", "K", "L", "M", "N", "O", "P", "Q", "R", "S", "T", "U", "V", "W", "X", "Y", "Z">>

\* ::toupper on one character
ToUpperChar(c) ==
    IF \E i \in 1..Len(LowerCase) : LowerCase[i] = c
    THEN UpperCase[CHOOSE i \in 1..Len(LowerCase) : LowerCase[i] = c]
    ELSE c

\* std::transform(..., ::toupper)
ToUpper(str) == [i \in 1..Len(str) |-> ToUpperChar(str[i])]

\* str.find(needle) != std::string::npos
Contains(str, needle) ==
    \E i \in 1..(Len(str) - Len(needle) + 1) : SubSeq(str, i, i + Len(needle) - 1) = needle

\* the characters as one string
RECURSIVE Join(_)
Join(str) == IF str = <<>> THEN "" ELSE Head(str) \o Join(Tail(str))

\* the concatenation of a sequence of character sequences
RECURSIVE Concat(_)
Concat(parts) == IF parts = <<>> THEN <<>> ELSE Head(parts) \o Concat(Tail(parts))

-----------------------------------------------------------------------------
(* OSVersionChecker *)

\* if (osvi.dwBuildNumber >= 19041)
Build2004 == 19041
\* else if (osvi.dwBuildNumber >= 18362)
Build1909 == 18362

\* What RtlGetVersion answers, with the architecture of the system
OSProbes ==
    [status : {0, 1}, major : {6, 10, 11}, minor : {0},
     build : {9600, Build1909 - 1, Build1909, Build2004 - 1, Build2004, 22631},
     is64 : BOOLEAN]

version_info(p, is_supported) ==
    IF p.major >= 11
    THEN "Windows " \o ToString(p.major) \o "." \o ToString(p.minor) \o "."
         \o ToString(p.build) \o " (supported)"
    ELSE IF p.major = 10
    THEN "Windows 10." \o ToString(p.minor) \o "." \o ToString(p.build) \o " ("
         \o (IF is_supported THEN "supported" ELSE "unsupported") \o ")"
    ELSE "Windows " \o ToString(p.major) \o "." \o ToString(p.minor) \o "."
         \o ToString(p.build)
         \o " (unsupported - requires Windows 10 build 18362+ or Windows 11)"

\* OSVersionChecker::Check: is_supported
is_supported(p) ==
    IF p.major >= 11 THEN TRUE
    ELSE IF p.major = 10
         THEN IF p.build >= Build2004 THEN TRUE
              ELSE IF p.build >= Build1909 THEN TRUE
              ELSE FALSE
         ELSE FALSE

\* OSVersionChecker::Check
OSVersionCheck ==
    /\ sysChecker = "OSVersion" /\ sysResult = NoResult
    /\ sysResult' =
          IF sysProbe.status # 0
          THEN CreateFailureResult("Failed to get OS version", 10)
          ELSE IF is_supported(sysProbe)
               THEN CreateSuccessResult(version_info(sysProbe, TRUE))
               ELSE CreateFailureResult(version_info(sysProbe, FALSE), 10)
    /\ UNCHANGED <<instVars, cliVars, moreVars, sysChecker, sysProbe>>

-----------------------------------------------------------------------------
(* NvidiaGPUChecker *)

\* most fragments a GPU name is put together from
MaxFrags == 3

NameFragments ==
    {<<"N", "V", "I", "D", "I", "A", " ", "G", "e", "F", "o", "r", "c", "e", " ">>,
     <<"R", "T", "X", " ">>,
     <<"r", "t", "x">>,
     <<"G", "T", "X", " ">>,
     <<"Q", "u", "a", "d", "r", "o", " ">>,
     <<"3", "0", "6", "0">>,
     <<"3", "0", "5", "0">>,
     <<"3", "5", "6", "0">>,
     <<"4", "0", "5", "0">>,
     <<"4", "0", "7", "0">>,
     <<"5", "0", "9", "0">>,
     <<"2", "0", "8", "0">>,
     <<" ", "T", "i">>,
     <<"t", "i">>,
     <<" ", "S", "U", "P", "E", "R">>,
     <<"A", "1", "0", "0">>,
     <<"0">>}

GpuNames == {Concat(fs) : fs \in SeqsUpTo(NameFragments, MaxFrags)}

high_end_cards ==
    <<<<"T", "E", "S", "L", "A">>,
      <<"Q", "U", "A", "D", "R", "O", " ", "R", "T", "X">>,
      <<"R", "T", "X", " ", "A">>,
      <<"A", "1", "0", "0">>,
      <<"H", "1", "0", "0">>,
      <<"A", "4", "0">>,
      <<"A", "3", "0">>,
      <<"A", "1", "0">>,
      <<"V", "1", "0", "0">>,
      <<"P", "1", "0", "0">>>>

\* the digits from the head of str on
RECURSIVE DigitRun(_)
DigitRun(str) ==
    IF str # <<>> /\ IsDigit(Head(str)) THEN <<Head(str)>> \o DigitRun(Tail(str)) ELSE <<>>

\* str without its leading whitespace
RECURSIVE SkipSpaces(_)
SkipSpaces(str) == IF str # <<>> /\ IsSpace(Head(str)) THEN SkipSpaces(Tail(str)) ELSE str

IsPrefix(pre, str) == Len(pre) <= Len(str) /\ SubSeq(str, 1, Len(pre)) = pre

\* INT_MAX, beyond which std::stoi throws std::out_of_range
IntMax == 2147483647

\* str without its leading zeros
RECURSIVE SkipZeros(_)
SkipZeros(str) == IF str # <<>> /\ Head(str) = "0" THEN SkipZeros(Tail(str)) ELSE str

\* std::stoi on a run of digits; ok = FALSE stands for the std::out_of_range it
\* throws when the number does not fit an int
StoiDigits(digits) ==
    LET d == SkipZeros(digits)
        n == Len(d)
        q == ReadDigits(SubSeq(d, 1, 9), 0, 0).value
    IN  IF n <= 9 THEN [ok |-> TRUE, value |-> ReadDigits(d, 0, 0).value]
        ELSE IF /\ n = 10
                /\ \/ q < IntMax \div 10
                   \/ q = IntMax \div 10 /\ DigitVal(d[10]) <= IntMax % 10
             THEN [ok |-> TRUE, value |-> q * 10 + DigitVal(d[10])]
             ELSE [ok |-> FALSE, value |-> 0]

\* The pattern RTX\s*(\d+)(\d{2,3})(?:\s*(TI|SUPER))? matched at the head of str:
\* the greedy (\d+) leaves the last two digits of the run to (\d{2,3})
RtxMatchAt(str) ==
    IF ~IsPrefix(<<"R", "T", "X">>, str) THEN [found |-> FALSE]
    ELSE LET rest   == SkipSpaces(SubSeq(str, 4, Len(str)))
             digits == DigitRun(rest)
             L      == Len(digits)
             after  == SkipSpaces(SubSeq(rest, L + 1, Len(rest)))
             series == StoiDigits(SubSeq(digits, 1, L - 2))
         IN  IF L < 3 THEN [found |-> FALSE]
             ELSE [found  |-> TRUE,
                   in_range |-> series.ok,
                   series |-> series.value,
                   model  |-> StoiDigits(SubSeq(digits, L - 1, L)).value,
                   suffix |-> IF IsPrefix(<<"T", "I">>, after) THEN "TI"
                              ELSE IF IsPrefix(<<"S", "U", "P", "E", "R">>, after) THEN "SUPER"
                              ELSE ""]

\* std::regex_search: the leftmost match
RECURSIVE RegexSearchFrom(_, _)
RegexSearchFrom(str, i) ==
    IF i > Len(str) THEN [found |-> FALSE]
    ELSE LET m == RtxMatchAt(SubSeq(str, i, Len(str)))
         IN  IF m.found THEN m ELSE RegexSearchFrom(str, i + 1)

regex_search(str) == RegexSearchFrom(str, 1)

\* a plain 3060 let through: model >= 60
Rtx30AcceptsPlain60(model, suffix) == model >= 60

\* RTX 30 series: model > 60, or model = 60 with TI in the suffix
Rtx30Accepts(model, suffix) ==
    IF model > 60 THEN TRUE
    ELSE IF model = 60 THEN suffix = "TI"
    ELSE FALSE

\* every 40-series card let through
RtxSeriesRuleAll40(match) ==
    IF ~match.in_range THEN "throw"
    ELSE IF match.series >= 40 THEN "accept"
    ELSE IF match.series = 30 /\ (match.model > 60 \/ (match.model = 60 /\ match.suffix = "TI"))
         THEN "accept"
    ELSE IF match.series = 30 \/ match.series <= 20 THEN "reject"
    ELSE "none"

\* The decision on a parsed RTX name; "none" when no series rule returns,
\* "throw" when std::stoi throws on the series
RtxSeriesRule(match) ==
    IF ~match.in_range THEN "throw"
    ELSE IF match.series >= 50 THEN "accept"
    ELSE IF match.series = 40
         THEN IF match.model >= 60 THEN "accept" ELSE "reject"
    ELSE IF match.series = 30
         THEN IF Rtx30Accepts(match.model, match.suffix) THEN "accept" ELSE "reject"
    ELSE IF match.series <= 20 THEN "reject"
    ELSE "none"

HasHighEndCard(gpu_upper) ==
    \E k \in 1..Len(high_end_cards) : Contains(gpu_upper, high_end_cards[k])

\* the series rule IsGPUMeetsMinimumRequirement comes to on the upper-cased name
RtxRule(gpu_upper) ==
    LET match == regex_search(gpu_upper)
    IN  IF /\ \/ Contains(gpu_upper, <<"G", "E", "F", "O", "R", "C", "E">>)
              \/ Contains(gpu_upper, <<"R", "T", "X">>)
           /\ match.found
        THEN RtxSeriesRule(match)
        ELSE "none"

\* IsGPUMeetsMinimumRequirement leaves by the exception of std::stoi
SeriesOutOfRange(gpu_name) ==
    LET gpu_upper == ToUpper(gpu_name)
    IN  ~HasHighEndCard(gpu_upper) /\ RtxRule(gpu_upper) = "throw"

\* every name taken as meeting the requirement
GpuAlwaysMeets(gpu_name) == TRUE

\* NvidiaGPUChecker::IsGPUMeetsMinimumRequirement, where it returns
IsGPUMeetsMinimumRequirement(gpu_name) ==
    LET gpu_upper == ToUpper(gpu_name)
        rule      == RtxRule(gpu_upper)
    IN  IF HasHighEndCard(gpu_upper) THEN TRUE
        ELSE IF rule # "none" THEN rule = "accept"
        ELSE IF Contains(gpu_upper, <<"G", "T", "X">>) THEN FALSE
        ELSE FALSE

\* Check left by an exception instead of a result
Thrown(what) == [status |-> "Exception", message |-> what, failure_code |-> 0]

\* What GetNvidiaGPUInfo answers: an NVIDIA adapter of any name, or another adapter
GPUProbes ==
    [is_nvidia : {TRUE}, name : GpuNames, is_blackwell_series : BOOLEAN]
    \cup [is_nvidia : {FALSE}, name : {Concat(fs) : fs \in SeqsUpTo(NameFragments, 1)},
          is_blackwell_series : {FALSE}]

\* NvidiaGPUChecker::Check
NvidiaGPUCheck ==
    /\ sysChecker = "NvidiaGPU" /\ sysResult = NoResult
    /\ sysResult' =
          IF ~sysProbe.is_nvidia
          THEN CreateFailureResult("No NVIDIA GPU detected", 7)
          ELSE IF SeriesOutOfRange(sysProbe.name)
          THEN Thrown("std::out_of_range")
          ELSE IF ~IsGPUMeetsMinimumRequirement(sysProbe.name)
          THEN CreateFailureResult("GPU below minimum requirement: " \o Join(sysProbe.name), 8)
          ELSE CreateSuccessResult(
                   "Compatible NVIDIA GPU detected: " \o Join(sysProbe.name)
                   \o (IF sysProbe.is_blackwell_series
                       THEN " (Blackwell series - will use blackwell image)"
                       ELSE " (will use hopper image)"))
    /\ UNCHANGED <<instVars, cliVars, moreVars, sysChecker, sysProbe>>

-----------------------------------------------------------------------------
(* NvidiaDriverChecker *)

NotDetected == "Not detected"

\* What GetCUDAInfo answers: the toolkit version and whether it is 12.8.x or 12.9.x
CUDAInfos ==
    {[version |-> NotDetected, is_valid_version |-> FALSE],
     [version |-> "12.7", is_valid_version |-> FALSE],
     [version |-> "12.8.1", is_valid_version |-> TRUE],
     [version |-> "12.9.0", is_valid_version |-> TRUE]}

\* What nvidia-smi prints
DriverOutputs == SeqsUpTo({"5", "\n"}, MaxOut)

\* RegOpenKeyExA and RegQueryValueExA on the Display Driver key
RegistryReplies == {"no key", "no value", "32.0.15.6094"}

DriverProbes ==
    [exit_code : ExitCodes, stdout_output : DriverOutputs, cuda_info : CUDAInfos,
     registry : RegistryReplies]

\* the nvidia-smi answer taken as a driver version whenever the exit code is 0
DriverQueriedByExitCode(p) == p.exit_code = 0

\* the nvidia-smi answer gives a driver version
DriverQueried(p) ==
    p.exit_code = 0 /\ p.stdout_output # <<>> /\ RemoveSpaces(p.stdout_output) # <<>>

cuda_warning == " (WARNING: CUDA version should be 12.8.x or 12.9.x)"

\* the toolkit version is detected and is not an accepted one
ToolkitFlagged(cuda_info) ==
    ~cuda_info.is_valid_version /\ cuda_info.version # NotDetected

nvidia_smi_cmd == "nvidia-smi --query-gpu=driver_version --format=csv,noheader,nounits"

display_driver_key == "SOFTWARE\\NVIDIA Corporation\\Global\\Display Driver"

\* the evidence Check asks for: nvidia-smi, then the registry unless nvidia-smi
\* gave a version
DriverQueries(p) ==
    <<Issued("nvidia_smi", nvidia_smi_cmd, "ExecCommandEx", 30, p.exit_code)>>
    \o (IF DriverQueried(p) THEN <<>>
        ELSE <<Issued("registry", display_driver_key, "RegOpenKeyExA", NoTimeout,
                      IF p.registry \in {"no key", "no value"} THEN 1 ELSE 0)>>)

\* NvidiaDriverChecker::Check
NvidiaDriverCheck ==
    /\ sysChecker = "NvidiaDriver" /\ sysResult = NoResult
    /\ cmdLog' = cmdLog \o DriverQueries(sysProbe)
    /\ sysResult' =
          IF DriverQueried(sysProbe)
          THEN CreateSuccessResult(
                   "NVIDIA driver: " \o Join(RemoveSpaces(sysProbe.stdout_output))
                   \o ", CUDA toolkit: " \o sysProbe.cuda_info.version
                   \o (IF ToolkitFlagged(sysProbe.cuda_info) THEN cuda_warning ELSE ""))
          ELSE IF sysProbe.registry \notin {"no key", "no value"}
          THEN CreateSuccessResult(
                   "NVIDIA driver installed (registry version: " \o sysProbe.registry \o ")")
          ELSE CreateFailureResult(
                   "NVIDIA driver not found. Please install NVIDIA graphics driver first.", 20)
    /\ UNCHANGED <<cliVars, moreVars, sysChecker, sysProbe, op, pc, proxy_url, pipReply,
                   projHost, commands, step, is_update_mode, seqResult, result>>

-----------------------------------------------------------------------------
(* BIOSVirtualizationChecker *)

FirmwareYes == "Virtualization Enabled In Firmware: Yes"
FirmwareNo == "Virtualization Enabled In Firmware: No"

\* Lines systeminfo prints
SysteminfoLines == {FirmwareYes, FirmwareNo, "OS Name: Microsoft Windows 11 Pro"}

\* the phrases of wsl --status that Check takes as virtualization being off
failure_phrases ==
    {"ensure virtualization is enabled in the BIOS",
     "WSL2 is not supported with your current machine configuration",
     "virtualization is not enabled"}

\* Lines wsl --status prints
WslStatusLines == failure_phrases \cup {"Default Version: 2"}

\* std::string::find of a phrase in an output given line by line
Finds(output, phrase) == \E k \in 1..Len(output) : output[k] = phrase

BIOSProbes ==
    [systeminfo : [code : ExitCodes, out : SeqsUpTo(SysteminfoLines, MaxOut)],
     wsl_status : [code : ExitCodes, out : SeqsUpTo(WslStatusLines, MaxOut)]]

virtualization_off_msg ==
    "BIOS virtualization is not enabled. Please restart your " \o
    "computer and enable virtualization in BIOS settings."

\* systeminfo taken as settling the check whatever its exit code
SysteminfoSettlesAnyCode(p) ==
    Finds(p.systeminfo.out, FirmwareYes) \/ Finds(p.systeminfo.out, FirmwareNo)

\* systeminfo settles the check: exit code 0 and one of the two firmware lines
SysteminfoSettles(p) ==
    p.systeminfo.code = 0
    /\ (Finds(p.systeminfo.out, FirmwareYes) \/ Finds(p.systeminfo.out, FirmwareNo))

\* the commands Check runs: systeminfo, then wsl --status unless systeminfo settled it
BIOSQueries(p) ==
    <<Issued("systeminfo", "systeminfo", "ExecutePowerShell", DefaultTimeout, p.systeminfo.code)>>
    \o (IF SysteminfoSettles(p) THEN <<>>
        ELSE <<Issued("wsl_status", "wsl --status", "ExecutePowerShell", DefaultTimeout,
                      p.wsl_status.code)>>)

\* BIOSVirtualizationChecker::Check
BIOSVirtualizationCheck ==
    /\ sysChecker = "BIOSVirtualization" /\ sysResult = NoResult
    /\ cmdLog' = cmdLog \o BIOSQueries(sysProbe)
    /\ sysResult' =
          IF sysProbe.systeminfo.code = 0 /\ Finds(sysProbe.systeminfo.out, FirmwareYes)
          THEN CreateSuccessResult("BIOS virtualization is enabled")
          ELSE IF sysProbe.systeminfo.code = 0 /\ Finds(sysProbe.systeminfo.out, FirmwareNo)
          THEN CreateFailureResult(virtualization_off_msg, 20)
          ELSE IF sysProbe.wsl_status.code = 0
          THEN IF \E ph \in failure_phrases : Finds(sysProbe.wsl_status.out, ph)
               THEN CreateFailureResult(virtualization_off_msg, 20)
               ELSE CreateSuccessResult("BIOS virtualization is enabled")
          ELSE CreateSuccessResult(
                   "BIOS virtualization status check completed (unable " \o
                   "to verify definitively)")
    /\ UNCHANGED <<cliVars, moreVars, sysChecker, sysProbe, op, pc, proxy_url, pipReply,
                   projHost, commands, step, is_update_mode, seqResult, result>>

-----------------------------------------------------------------------------
(* The system checkers, each run once on what the system answers *)

InitSys ==
    /\ InstIdle /\ CliIdle /\ MoreIdle
    /\ sysResult = NoResult
    /\ \/ sysChecker = "OSVersion" /\ sysProbe \in OSProbes
       \/ sysChecker = "NvidiaGPU" /\ sysProbe \in GPUProbes
       \/ sysChecker = "NvidiaDriver" /\ sysProbe \in DriverProbes
       \/ sysChecker = "BIOSVirtualization" /\ sysProbe \in BIOSProbes

NextSys ==
    \/ OSVersionCheck
    \/ NvidiaGPUCheck
    \/ NvidiaDriverCheck
    \/ BIOSVirtualizationCheck

SpecSys == InitSys /\ [][NextSys]_vars

-----------------------------------------------------------------------------
(* Properties of the system checkers *)

OSChecked == sysChecker = "OSVersion" /\ sysResult # NoResult
GPUChecked == sysChecker = "NvidiaGPU" /\ sysResult # NoResult
DriverChecked == sysChecker = "NvidiaDriver" /\ sysResult # NoResult

\* the WSL2 requirement the checker is written against
OSSupported(p) ==
    \/ p.major >= 11
    \/ p.major = 10 /\ p.build >= Build2004
    \/ p.major = 10 /\ p.build >= Build1909 /\ p.build < Build2004 /\ p.is64

\* C8: whenever the OS version is read, OSVersionChecker::Check returns Success
\* if major >= 11, or major = 10 and build >= 19041, or major = 10 and build in
\* [18362, 19041) on a 64-bit system, and returns Failed with code 10 otherwise.
C8_OSVersionPolicy ==
    (OSChecked /\ sysProbe.status = 0) =>
        IF OSSupported(sysProbe)
        THEN sysResult.status = kSuccess
        ELSE sysResult.status = kFailed /\ sysResult.failure_code = 10

\* C9: when nvidia-smi gives a driver version and the detected toolkit version is
\* not an accepted one, NvidiaDriverChecker::Check returns status Warning with the
\* note in its message, and the check verdict over otherwise successful
\* components is the warning verdict.
C9_DriverToolkitWarning ==
    (DriverChecked /\ DriverQueried(sysProbe) /\ ToolkitFlagged(sysProbe.cuda_info)) =>
        /\ sysResult.status = kWarning
        /\ sysResult.message =
              "NVIDIA driver: " \o Join(RemoveSpaces(sysProbe.stdout_output))
              \o ", CUDA toolkit: " \o sysProbe.cuda_info.version \o cuda_warning
        /\ CheckAllComponents(
              [component_results |-> <<[status |-> kSuccess], [status |-> sysResult.status]>>,
               reboot_required |-> FALSE]) = VerdictWarning

Has3060Ti(gpu_upper) ==
    \/ Contains(gpu_upper, <<"3", "0", "6", "0", " ", "T", "I">>)
    \/ Contains(gpu_upper, <<"3", "0", "6", "0", "T", "I">>)

Has3060(gpu_upper) == Contains(gpu_upper, <<"3", "0", "6", "0">>)

HasTi(gpu_upper) == Contains(gpu_upper, <<"T", "I">>)

\* the first RTX number of the name is a 40-series one with model below 60
IsRtx40Below60(gpu_upper) ==
    LET m == regex_search(gpu_upper) IN m.found /\ m.series = 40 /\ m.model < 60

\* the first RTX number of the name is 3060
IsRtx3060(gpu_upper) ==
    LET m == regex_search(gpu_upper) IN m.found /\ m.series = 30 /\ m.model = 60

\* the first RTX number of the name is 3060 and TI follows it
IsRtx3060Ti(gpu_upper) ==
    IsRtx3060(gpu_upper) /\ regex_search(gpu_upper).suffix = "TI"

GPUAccepted == sysResult.status = kSuccess

\* C7 (as stated): for an NVIDIA adapter, every name containing "3060 Ti" in any
\* letter case, with or without the space, is accepted; every name containing
\* "3060" without "Ti" is rejected; every name whose RTX number is 40-series
\* with model < 60 is rejected; every name containing a high-end card substring
\* is accepted.
C7_GpuRulesBySubstring ==
    (GPUChecked /\ sysProbe.is_nvidia) =>
        LET gpu_upper == ToUpper(sysProbe.name)
        IN  /\ Has3060Ti(gpu_upper) => GPUAccepted
            /\ (Has3060(gpu_upper) /\ ~HasTi(gpu_upper)) => ~GPUAccepted
            /\ IsRtx40Below60(gpu_upper) => ~GPUAccepted
            /\ HasHighEndCard(gpu_upper) => GPUAccepted

\* C7 (amended): for an NVIDIA adapter the verdict depends on the name alone;
\* every name containing a high-end card substring is accepted; every name
\* whose first RTX number is 3060 followed by TI is accepted; among the names
\* without a high-end card substring, those containing "3060" without "Ti"
\* whose first RTX number, if any, is 3060 are rejected, and those whose first
\* RTX number is 40-series with model < 60 are rejected.
C7_GpuRulesByRtxNumber ==
    (GPUChecked /\ sysProbe.is_nvidia) =>
        LET gpu_upper == ToUpper(sysProbe.name)
        IN  /\ GPUAccepted <=> IsGPUMeetsMinimumRequirement(sysProbe.name)
            /\ HasHighEndCard(gpu_upper) => GPUAccepted
            /\ IsRtx3060Ti(gpu_upper) => GPUAccepted
            /\ ( /\ ~HasHighEndCard(gpu_upper)
                 /\ Has3060(gpu_upper) /\ ~HasTi(gpu_upper)
                 /\ regex_search(gpu_upper).found => IsRtx3060(gpu_upper) ) => ~GPUAccepted
            /\ (~HasHighEndCard(gpu_upper) /\ IsRtx40Below60(gpu_upper)) => ~GPUAccepted

\* "rtx3060ti", without a space and in lower case, is accepted
C7_Witness ==
    /\ GPUChecked /\ sysProbe.is_nvidia /\ GPUAccepted
    /\ sysProbe.name = <<"r", "t", "x", "3", "0", "6", "0", "t", "i">>

-----------------------------------------------------------------------------
(* The subsystem the project commands run in: the directories their text names *)
(* and what each command does to them when it behaves as written               *)

\* most project operations run one after the other on one subsystem
MaxOps == 2

\* the directory each command changes into or names, from its text
DirOf(kind) ==
    CASE kind \in {"import_check", "ls_git", "git_branch", "rev_parse"} -> "parallax"
      [] kind \in {"fetch", "rev_list", "update_parallax", "remove_old_prakasa",
                   "install_prakasa_base"} -> "prakasa"
      [] kind = "clone_prakasa" -> "prakasa"

ProjectDirs == {"parallax", "prakasa"}

NoDir == [exists |-> FALSE, git |-> "none", venv |-> FALSE, pkg |-> FALSE,
          remote_ahead |-> 0, tracked_ahead |-> 0]

\* A cloned repository as git clone leaves it
ClonedDir == [exists |-> TRUE, git |-> "repo", venv |-> FALSE, pkg |-> FALSE,
              remote_ahead |-> 0, tracked_ahead |-> 0]

\* commits on the remote branch that a local checkout may lack
Behind == {0, 2}

\* A directory: absent, or present with or without a (possibly broken) .git,
\* a virtual environment and the project package in it; remote_ahead counts the
\* commits of origin's main missing from HEAD, tracked_ahead those of them the
\* local remote-tracking ref already knows
DirStates ==
    {NoDir} \cup
    {d \in [exists : {TRUE}, git : {"none", "repo", "broken"}, venv : BOOLEAN, pkg : BOOLEAN,
            remote_ahead : Behind, tracked_ahead : Behind] :
        /\ d.pkg => d.venv
        /\ d.git # "repo" => d.remote_ahead = 0
        /\ d.tracked_ahead <= d.remote_ahead}

HostStates ==
    [parallax : DirStates, prakasa : DirStates, python3_venv : BOOLEAN, bashrc_cuda : BOOLEAN]

IsRepo(d) == d.exists /\ d.git = "repo"

Reply(code, out, fs) == [code |-> code, out |-> out, fs |-> fs]

\* What one command answers on the files fs and what it leaves behind
HostExec(fs, kind) ==
    LET dir == DirOf(kind)
        d   == fs[dir]
    IN  CASE kind = "import_check" ->
                IF d.exists /\ d.venv /\ d.pkg
                THEN Reply(0, "parallax 0.1.0 /root/parallax", fs)
                ELSE Reply(1, "", fs)
          [] kind = "ls_git" ->
                IF d.exists /\ d.git # "none"
                THEN Reply(0, "total 52 drwxr-xr-x 8 root root 4096 .git", fs)
                ELSE Reply(0, "not found", fs)
          [] kind = "git_branch" ->
                IF IsRepo(d) THEN Reply(0, "* main", fs) ELSE Reply(0, "not git", fs)
          [] kind = "rev_parse" ->
                IF IsRepo(d) THEN Reply(0, "true", fs) ELSE Reply(128, "", fs)
          [] kind = "fetch" ->
                IF IsRepo(d)
                THEN Reply(0, "", [fs EXCEPT ![dir].tracked_ahead = d.remote_ahead])
                ELSE Reply(128, "", fs)
          [] kind = "rev_list" ->
                IF IsRepo(d) THEN Reply(0, <<ToString(d.tracked_ahead), "\n">>, fs)
                ELSE Reply(128, <<>>, fs)
          [] kind = "update_parallax" ->
                IF IsRepo(d)
                THEN Reply(0, "", [fs EXCEPT ![dir].tracked_ahead = 0, ![dir].remote_ahead = 0])
                ELSE Reply(128, "", fs)
          [] kind = "remove_old_prakasa" -> Reply(0, "", [fs EXCEPT ![dir] = NoDir])
          [] kind = "clone_prakasa" ->
                IF d.exists THEN Reply(128, "", fs)
                ELSE Reply(0, "", [fs EXCEPT ![dir] = ClonedDir])
          [] kind = "install_python3_venv" -> Reply(0, "", [fs EXCEPT !.python3_venv = TRUE])
          [] kind = "install_prakasa_base" ->
                IF IsRepo(d) /\ (d.venv \/ fs.python3_venv)
                THEN Reply(0, "", [fs EXCEPT ![dir].venv = TRUE, ![dir].pkg = TRUE])
                ELSE Reply(1, "", fs)
          [] kind = "add_cuda_env" -> Reply(0, "", [fs EXCEPT !.bashrc_cuda = TRUE])

\* IsParallaxProjectInstalled and, when it holds, HasParallaxProjectGitUpdates'
\* queries answered by fs: the replies and the files after them
HostProbe(fs) ==
    LET imp == HostExec(fs, "import_check")
        rp  == HostExec(fs, "rev_parse")
        ft  == HostExec(fs, "fetch")
        rl  == HostExec(ft.fs, "rev_list")
        fetched == IsParallaxProjectInstalled(imp) /\ rp.code = 0 /\ ft.code = 0
    IN  [h  |-> [import |-> [code |-> imp.code, out |-> imp.out], revparse |-> rp.code,
                 fetch |-> ft.code, revlist |-> [code |-> rl.code, out |-> rl.out]],
         fs |-> IF fetched THEN ft.fs ELSE fs]

\* ParallaxProjectInstaller::Check on fs
CheckOn(fs, p) ==
    LET pr == HostProbe(fs)
        is_installed == IsParallaxProjectInstalled(pr.h.import)
    IN  [result |-> IF is_installed
                    THEN IF HasParallaxProjectGitUpdates(pr.h)
                         THEN CreateWarningResult(
                                  "Parallax project is installed but has git updates available")
                         ELSE CreateSkippedResult(
                                  "Parallax project is already installed and up to date")
                    ELSE CreateFailureResult("Parallax project is not installed", 25),
         log    |-> <<ImportQuery(pr.h.import)>>
                    \o (IF is_installed THEN GitUpdateProbes(pr.h, p) ELSE <<>>),
         fs     |-> pr.fs]

\* ExecuteCommandSequence on fs from step i on: the result, the commands issued
\* and the files left
RECURSIVE RunStepsOn(_, _, _, _)
RunStepsOn(fs, cmds, i, log) ==
    IF i > Len(cmds)
    THEN [result |-> CreateSuccessResult("Command sequence completed successfully"),
          log |-> log, fs |-> fs]
    ELSE LET s == cmds[i]
             x == HostExec(fs, s.name)
             e == IF s.realtime
                  THEN Issued(s.name, s.cmd, "WSLProcess", NoTimeout, x.code)
                  ELSE Issued(s.name, s.cmd, "ExecuteWSL", s.timeout, x.code)
         IN  IF StepFailed(x.code)
             THEN [result |-> CreateFailureResult(StepErrorMsg(s), 25),
                   log |-> Append(log, e), fs |-> x.fs]
             ELSE RunStepsOn(x.fs, cmds, i + 1, Append(log, e))

\* The head of a fresh-mode sequence, from the .git and branch probes
FreshHead(ls, br, p) ==
    IF ls.code = 0 /\ LacksMarker(ls.out, "not found")
    THEN IF br.code = 0 /\ LacksMarker(br.out, "not git")
         THEN <<UpdateStep(p)>>
         ELSE <<RemoveStep, CloneStep(p)>>
    ELSE <<CloneStep(p)>>

\* ParallaxProjectInstaller::Install on fs
InstallOn(fs, p) ==
    LET imp == HostExec(fs, "import_check")
        is_installed == IsParallaxProjectInstalled(imp)
        pr  == HostProbe(fs)
        ls  == HostExec(fs, "ls_git")
        br  == HostExec(fs, "git_branch")
        dir_found == ls.code = 0 /\ LacksMarker(ls.out, "not found")
        cmds == IF is_installed
                THEN <<UpdateStep(p)>> \o CommonSteps(TRUE, p)
                ELSE FreshHead(ls, br, p) \o CommonSteps(FALSE, p)
        probes == IF is_installed
                  THEN <<ImportQuery(pr.h.import)>> \o GitUpdateProbes(pr.h, p)
                  ELSE <<ImportQuery(pr.h.import), LsQuery(ls)>>
                       \o (IF dir_found THEN <<BranchQuery(br)>> ELSE <<>>)
        run == RunStepsOn(pr.fs, cmds, 1, probes)
        ver == HostExec(run.fs, "import_check")
    IN  IF is_installed /\ ~HasParallaxProjectGitUpdates(pr.h)
        THEN [result |-> CreateSkippedResult(
                             "Parallax project is already installed and up to date"),
              log |-> probes, fs |-> pr.fs, commands |-> <<>>]
        ELSE IF run.result.status # kSuccess
        THEN [result |-> run.result, log |-> run.log, fs |-> run.fs, commands |-> cmds]
        ELSE [result |->
                 IF IsParallaxProjectInstalled(ver)
                 THEN (IF is_installed
                       THEN CreateSuccessResult("Prakasa project updated successfully")
                       ELSE CreateSuccessResult("Prakasa project installed successfully"))
                 ELSE CreateFailureResult(
                          IF is_installed
                          THEN "Parallax project update completed but verification failed"
                          ELSE "Parallax project installation completed but verification failed",
                          25),
              log |-> Append(run.log, ImportQuery(ver)), fs |-> run.fs, commands |-> cmds]

Ran(kind, before, r) ==
    [op |-> kind, before |-> before, result |-> r.result, log |-> r.log, after |-> r.fs]

\* The next operation of the plan is Check
HostProjectCheck ==
    /\ hostPlan # <<>> /\ Head(hostPlan) = "Check"
    /\ LET r == CheckOn(hostFs, proxy_url) IN
       /\ hostFs' = r.fs
       /\ hostRuns' = Append(hostRuns, Ran("Check", hostFs, r))
    /\ hostPlan' = Tail(hostPlan)
    /\ UNCHANGED <<instVars, sysVars, cliVars, runVars, cfgVars>>

\* The next operation of the plan is Install
HostProjectInstall ==
    /\ hostPlan # <<>> /\ Head(hostPlan) = "Install"
    /\ LET r == InstallOn(hostFs, proxy_url) IN
       /\ hostFs' = r.fs
       /\ hostRuns' = Append(hostRuns, Ran("Install", hostFs, r))
    /\ hostPlan' = Tail(hostPlan)
    /\ UNCHANGED <<instVars, sysVars, cliVars, runVars, cfgVars>>

InitHost ==
    /\ InstIdle /\ SysIdle /\ CliIdle /\ RunIdle /\ CfgIdle
    /\ hostFs \in HostStates
    /\ hostPlan \in SeqsUpTo({"Check", "Install"}, MaxOps) \ {<<>>}
    /\ hostRuns = <<>>

NextHost ==
    \/ HostProjectCheck
    \/ HostProjectInstall

SpecHost == InitHost /\ [][NextHost]_vars

\* the commands of a log that change files of the subsystem
Writes(log) ==
    SelectSeq(log, LAMBDA e : e.kind \in MutatingKinds \cup {"fetch"})

\* C11: every Check of the project leaves the subsystem's files as it found them
\* and issues no command that changes them, and a Check repeated on the files
\* the previous Check left returns the same result.
C11_CheckIsReadOnly ==
    \A i \in 1..Len(hostRuns) :
        hostRuns[i].op = "Check" =>
            /\ hostRuns[i].after = hostRuns[i].before
            /\ Writes(hostRuns[i].log) = <<>>
            /\ (i > 1 /\ hostRuns[i - 1].op = "Check") =>
                   hostRuns[i].result = hostRuns[i - 1].result

NoProject(fs) == ~fs.parallax.exists /\ ~fs.prakasa.exists

StepsAllZero(log) ==
    \A k \in 1..Len(log) : log[k].kind \in StepNames => log[k].code = 0

\* the commands of a log whose text names a project directory
InProjectDir(log) ==
    SelectSeq(log, LAMBDA e : e.kind \notin {"install_python3_venv", "add_cuda_env"})

\* C20: within an operation the probes and the steps of the install sequence
\* all work in one directory; and an Install on a subsystem without project
\* directory whose steps all exit 0 returns Success, and the Install after a
\* successful one returns Skipped.
C20_OneProjectDirectory ==
    \A i \in 1..Len(hostRuns) :
        LET r == hostRuns[i]
            named == InProjectDir(r.log)
        IN  /\ \A a, b \in 1..Len(named) : DirOf(named[a].kind) = DirOf(named[b].kind)
            /\ (r.op = "Install" /\ NoProject(r.before) /\ StepsAllZero(r.log)) =>
                   r.result.status = kSuccess
            /\ (r.op = "Install" /\ i > 1 /\ hostRuns[i - 1].op = "Install"
                /\ hostRuns[i - 1].result.status = kSuccess) =>
                   r.result.status = kSkipped

-----------------------------------------------------------------------------
(* Further properties of the runner *)

RunnerActive == op \in {"sequence", "project.Install"} /\ pc \in {"seq", "seq.ret", "done"}

\* C12: every step the runner has issued, through the plain executor or through
\* the relay, was issued with that step's timeout, and an explicit (positive) one.
C12_StepsBoundedByTimeout ==
    RunnerActive =>
        \A i \in 1..Len(SeqLog) :
            /\ SeqLog[i].timeout = commands[i].timeout
            /\ SeqLog[i].timeout > 0

RunnerReturned ==
    op \in {"sequence", "project.Install"} /\ pc \in {"seq.ret", "done"} /\ seqResult # NoResult

AllStepsZero ==
    /\ Len(SeqLog) = Len(commands)
    /\ \A i \in 1..Len(SeqLog) : SeqLog[i].code = 0

\* index of the first step that exited non-zero
FirstFailing == CHOOSE i \in 1..Len(SeqLog) : SeqLog[i].code # 0 /\ \A j \in 1..(i - 1) : SeqLog[j].code = 0

\* C14: once the runner has returned, its result is Success exactly when all n
\* steps ran and exited 0; otherwise it is Failed with code 25 and the message
\* "Failed at step '<name>': <command>" of the first step that exited non-zero.
C14_RunnerResult ==
    RunnerReturned =>
        /\ seqResult.status = kSuccess <=> AllStepsZero
        /\ AllStepsZero =>
              seqResult = CreateSuccessResult("Command sequence completed successfully")
        /\ ~AllStepsZero =>
              /\ \E i \in 1..Len(SeqLog) : SeqLog[i].code # 0
              /\ seqResult = CreateFailureResult(
                                 "Failed at step '" \o commands[FirstFailing].name \o "': "
                                 \o commands[FirstFailing].cmd, 25)

\* a list whose second step, of another name than the first, failed
C14_Witness ==
    /\ op = "sequence" /\ pc = "seq.ret"
    /\ Len(commands) = 3 /\ Len(SeqLog) = 2
    /\ commands[1].name # commands[2].name
    /\ SeqLog[2].code # 0
    /\ seqResult.status = kFailed /\ seqResult.failure_code = 25

-----------------------------------------------------------------------------
(* Properties of NvidiaGPUChecker *)

\* NvidiaGPUChecker::Check came back with a result
GPUReturned == GPUChecked /\ sysResult.status \in {kSuccess, kFailed, kWarning, kSkipped}

NvidiaGeForceRtx3050 ==
    Concat(<< <<"N", "V", "I", "D", "I", "A", " ", "G", "e", "F", "o", "r", "c", "e", " ">>,
              <<"R", "T", "X", " ">>, <<"3", "0", "5", "0">> >>)

\* C15: whenever NvidiaGPUChecker::Check returns, the result is Failed with code
\* 7 exactly when no NVIDIA device is present, Failed with code 8 exactly when
\* an NVIDIA device is present and its name is rejected by the classification,
\* as "NVIDIA GeForce RTX 3050" is, and Success otherwise; it is never Warning
\* or Skipped.
C15_GpuCheckCodes ==
    GPUReturned =>
        LET rejected == sysProbe.is_nvidia /\ ~IsGPUMeetsMinimumRequirement(sysProbe.name)
        IN  /\ sysResult.status \in {kSuccess, kFailed}
            /\ (sysResult.status = kFailed /\ sysResult.failure_code = 7) <=> ~sysProbe.is_nvidia
            /\ (sysResult.status = kFailed /\ sysResult.failure_code = 8) <=> rejected
            /\ sysResult.status = kSuccess <=> (sysProbe.is_nvidia /\ ~rejected)
            /\ sysResult.status = kFailed => sysResult.failure_code \in {7, 8}
            /\ (sysProbe.is_nvidia /\ sysProbe.name = NvidiaGeForceRtx3050) =>
                   sysResult = CreateFailureResult(
                       "GPU below minimum requirement: NVIDIA GeForce RTX 3050", 8)

\* "NVIDIA GeForce RTX 3050" on an NVIDIA adapter came back Failed with code 8
C15_Witness ==
    /\ GPUReturned /\ sysProbe.is_nvidia /\ sysProbe.name = NvidiaGeForceRtx3050
    /\ sysResult.status = kFailed /\ sysResult.failure_code = 8

\* the upper-cased name contains GEFORCE or RTX and holds an RTX number
ParsesAsRtx(gpu_upper) ==
    /\ \/ Contains(gpu_upper, <<"G", "E", "F", "O", "R", "C", "E">>)
       \/ Contains(gpu_upper, <<"R", "T", "X">>)
    /\ regex_search(gpu_upper).found

\* the parsed series is one the policy table has a row for
InTable(m) == m.series >= 50 \/ m.series = 40 \/ m.series = 30 \/ m.series <= 20

\* the verdict of the policy table on a parsed RTX number
TableAccepts(m) ==
    \/ m.series >= 50
    \/ m.series = 40 /\ m.model >= 60
    \/ m.series = 30 /\ (m.model > 60 \/ (m.model = 60 /\ m.suffix = "TI"))

-----------------------------------------------------------------------------
(* Properties of ParallaxProjectInstaller::Install on a subsystem *)

\* the names of the sequence steps a log holds, in the order they ran
StepsRun(log) ==
    LET steps == SelectSeq(log, LAMBDA e : e.kind \in StepNames)
    IN  [k \in 1..Len(steps) |-> steps[k].kind]

\* s is t or the beginning of t
IsHead(s, t) == Len(s) <= Len(t) /\ \A k \in 1..Len(s) : s[k] = t[k]

\* both project directories hold a clone; neither exists; both exist without
\* being a repository
Cloned(fs) == IsRepo(fs.parallax) /\ IsRepo(fs.prakasa)
Absent(fs) == ~fs.parallax.exists /\ ~fs.prakasa.exists
NotARepository(fs) ==
    /\ fs.parallax.exists /\ ~IsRepo(fs.parallax)
    /\ fs.prakasa.exists /\ ~IsRepo(fs.prakasa)

\* C17: an Install that runs a sequence on a subsystem whose project is cloned
\* runs only update_parallax and install_prakasa_base; on a subsystem whose
\* project directory is absent it starts with clone_prakasa; on one whose
\* project directory is present without being a repository it starts with
\* remove_old_prakasa followed by clone_prakasa.
C17_ModeByClone ==
    \A i \in 1..Len(hostRuns) :
        LET run   == hostRuns[i]
            steps == StepsRun(run.log)
        IN  (run.op = "Install" /\ steps # <<>>) =>
                /\ Cloned(run.before) =>
                       IsHead(steps, <<"update_parallax", "install_prakasa_base">>)
                /\ Absent(run.before) => steps[1] = "clone_prakasa"
                /\ NotARepository(run.before) =>
                       IsHead(<<"remove_old_prakasa", "clone_prakasa">>, steps)

-----------------------------------------------------------------------------
(* Properties of the sequence ParallaxProjectInstaller::Install builds *)

\* Install has built its command sequence
InstallBuilt == op = "project.Install" /\ commands # <<>>

\* the step names of the sequence, in order
CommandNames == [k \in 1..Len(commands) |-> commands[k].name]

\* where a step of that name stands in the sequence, 0 if nowhere
Position(name) ==
    IF \E k \in 1..Len(commands) : commands[k].name = name
    THEN CHOOSE k \in 1..Len(commands) : commands[k].name = name
    ELSE 0

\* C18: every sequence Install builds has each step name at most once and is
\* ordered: remove_old_prakasa only directly before clone_prakasa; clone_prakasa
\* or update_parallax, one of the two; install_python3_venv, in fresh mode
\* only; install_prakasa_base; add_cuda_env, in fresh mode only and last.
\* install_prakasa_base is in every sequence and is the only step with the
\* realtime flag, and the steps run in the order of the sequence.
C18_SequenceOrder ==
    InstallBuilt =>
        LET rm    == Position("remove_old_prakasa")
            clone == Position("clone_prakasa")
            pull  == Position("update_parallax")
            venv  == Position("install_python3_venv")
            base  == Position("install_prakasa_base")
            cuda  == Position("add_cuda_env")
            head  == IF clone > 0 THEN clone ELSE pull
        IN  /\ \A j, k \in 1..Len(commands) :
                   commands[j].name = commands[k].name => j = k
            /\ \A k \in 1..Len(commands) : commands[k].name \in StepNames
            /\ rm > 0 => (rm = 1 /\ clone = 2)
            /\ (clone > 0) # (pull > 0)
            /\ head = (IF rm > 0 THEN 2 ELSE 1)
            /\ (venv > 0) <=> ~is_update_mode
            /\ (cuda > 0) <=> ~is_update_mode
            /\ venv > 0 => venv = head + 1
            /\ base = (IF venv > 0 THEN venv + 1 ELSE head + 1)
            /\ cuda > 0 => (cuda = base + 1 /\ cuda = Len(commands))
            /\ cuda = 0 => base = Len(commands)
            /\ \A k \in 1..Len(commands) : commands[k].realtime <=> k = base
            /\ IsHead(StepsRun(cmdLog), CommandNames)

\* the longest sequence, removal first, has run to its end
C18_Witness ==
    /\ InstallBuilt /\ pc = "done"
    /\ CommandNames = <<"remove_old_prakasa", "clone_prakasa", "install_python3_venv",
                        "install_prakasa_base", "add_cuda_env">>
    /\ StepsRun(cmdLog) = CommandNames

\* Install has returned after running its sequence
InstallRan == InstallBuilt /\ pc = "done"

VerificationFailed ==
    CreateFailureResult(
        IF is_update_mode
        THEN "Parallax project update completed but verification failed"
        ELSE "Parallax project installation completed but verification failed", 25)

\* C19: when Install has run its sequence, a sequence that failed at a step
\* makes Install return that step's Failed result without another import
\* check; after a sequence whose steps all exit 0 the last command issued is
\* the import check, Install returns Success only if that check exits 0, and
\* otherwise returns Failed with code 25 and the "verification failed" message.
C19_VerifiedAfterSequence ==
    InstallRan =>
        LET last == cmdLog[Len(cmdLog)]
        IN  IF seqResult.status # kSuccess
            THEN /\ result = seqResult
                 /\ result = CreateFailureResult(StepErrorMsg(commands[step]), 25)
                 /\ last.kind = commands[step].name /\ last.code # 0
            ELSE /\ StepsRun(cmdLog) = CommandNames
                 /\ \A k \in 1..Len(SeqLog) : SeqLog[k].code = 0
                 /\ last.kind = "import_check"
                 /\ result.status = kSuccess => last.code = 0
                 /\ result.status # kSuccess => result = VerificationFailed
                 /\ last.code # 0 => result = VerificationFailed

\* every step exited 0 and the import check after them failed
C19_Witness ==
    /\ InstallRan /\ seqResult.status = kSuccess
    /\ cmdLog[Len(cmdLog)].kind = "import_check" /\ cmdLog[Len(cmdLog)].code # 0
    /\ result = VerificationFailed

-----------------------------------------------------------------------------
(* The model commands run, join and chat *)

MaxArgs == 2

DashH == <<"-", "h">>
DashDashHelp == <<"-", "-", "h", "e", "l", "p">>

\* Arguments a user may supply, character by character: options, a model
\* name, the help options, and values with a space, a quote, a backslash, a
\* dollar sign, a leading hash, and the empty argument
ArgPool ==
    {<<"-", "m">>, <<"Q">>, DashH, DashDashHelp, <<"a", " ", "b">>, <<"i", "t", "'", "s">>,
     <<"C", ":", "\\", "m">>, <<"$", "H">>, <<"#", "1">>, <<>>}

\* BaseCommand::ShouldShowHelp
ShouldShowHelp(args) ==
    \E i \in 1..Len(args) : args[i] = DashDashHelp \/ args[i] = DashH

\* ValidateArgsImpl of the three commands: every argument list is accepted
ValidateArgsImpl(args) == CmdSuccess

\* argument validation that refuses unknown options only and lets values pass
CheckCommand_ValidateArgsOptionsOnly(args) ==
    IF \E i \in 1..Len(args) :
           /\ args[i] # DashDashHelp /\ args[i] # DashH
           /\ args[i] # <<>> /\ args[i][1] = "-"
    THEN CmdInvalidArgs ELSE CmdSuccess

\* CheckCommand::ValidateArgsImpl
CheckCommand_ValidateArgsImpl(args) ==
    IF \E i \in 1..Len(args) : args[i] # DashDashHelp /\ args[i] # DashH
    THEN CmdInvalidArgs ELSE CmdSuccess

\* InstallCommand::ValidateArgsImpl
InstallCommand_ValidateArgsImpl(args) ==
    IF \E i \in 1..Len(args) : args[i] # DashDashHelp /\ args[i] # DashH
    THEN CmdInvalidArgs ELSE CmdSuccess

\* BaseCommand::ValidateArgs: the ValidateArgsImpl of the command
ValidateArgs(cmd, args) ==
    CASE cmd = "check" -> CheckCommand_ValidateArgsImpl(args)
      [] cmd = "install" -> InstallCommand_ValidateArgsImpl(args)
      [] OTHER -> ValidateArgsImpl(args)

\* The commands derived from AdminCommand; the others derive from WSLCommand
AdminCommands == {"check", "install"}

\* AdminCommand::GetEnvironmentRequirements, WSLCommand::GetEnvironmentRequirements
GetEnvironmentRequirements(cmd) ==
    IF cmd \in AdminCommands
    THEN [need_wsl |-> FALSE, need_admin |-> TRUE]
    ELSE [need_wsl |-> TRUE, need_admin |-> FALSE]

\* the configured distribution, KEY_WSL_LINUX_DISTRO
ubuntu_version == "Ubuntu-24.04"

\* What "wsl --list --quiet" answers: exit code and, after the conversion of
\* the PowerShell output to UTF-8, the distributions listed
WslListings ==
    {[code |-> 0, out |-> <<"Ubuntu-24.04">>],
     [code |-> 0, out |-> <<"docker-desktop">>],
     [code |-> 0, out |-> <<>>],
     [code |-> 1, out |-> <<"Ubuntu-24.04">>]}

\* BaseCommand::CheckWSLEnvironment
CheckWSLEnvironment(env) ==
    IF env.listing.code # 0 THEN FALSE ELSE Finds(env.listing.out, ubuntu_version)

\* the listing's exit code taken as enough
PrepareEnvironmentByExitCode(requirements, env) ==
    IF requirements.need_admin /\ ~env.is_admin THEN CmdEnvironmentError
    ELSE IF requirements.need_wsl /\ env.listing.code # 0 THEN CmdEnvironmentError
    ELSE CmdSuccess

\* BaseCommand::PrepareEnvironment
PrepareEnvironment(requirements, env) ==
    IF requirements.need_admin /\ ~env.is_admin THEN CmdEnvironmentError
    ELSE IF requirements.need_wsl /\ ~CheckWSLEnvironment(env) THEN CmdEnvironmentError
    ELSE CmdSuccess

\* the characters that make EscapeForShell quote an argument, but for the
\* backquote, which no argument of ArgPool holds
ShellSpecial ==
    {" ", "\t", "\n", "\"", "'", "&", "|", ";", "<", ">", "(", ")", "$", "*", "?",
     "[", "]", "{", "}"}

RECURSIVE EscapeChars(_)
EscapeChars(arg) ==
    IF arg = <<>> THEN <<>>
    ELSE (IF Head(arg) = "'" THEN <<"'", "\"", "'", "\"", "'">> ELSE <<Head(arg)>>)
         \o EscapeChars(Tail(arg))

\* BaseCommand::EscapeForShell
EscapeForShell(arg) ==
    IF \E i \in 1..Len(arg) : arg[i] \in ShellSpecial
    THEN <<"'">> \o EscapeChars(arg) \o <<"'">>
    ELSE arg

\* the loop of BuildRunCommand, BuildJoinCommand and BuildChatCommand
RECURSIVE AppendArgs(_)
AppendArgs(args) ==
    IF args = <<>> THEN <<>>
    ELSE <<" ">> \o EscapeForShell(Head(args)) \o AppendArgs(Tail(args))

BuildRunCommand(args) == <<"p", "r", "a", "k", "a", "s", "a", " ", "r", "u", "n">> \o AppendArgs(args)

BuildJoinCommand(args) == <<"p", "r", "a", "k", "a", "s", "a", " ", "j", "o", "i", "n">> \o AppendArgs(args)

BuildChatCommand(args) == <<"p", "r", "a", "k", "a", "s", "a", " ", "c", "h", "a", "t">> \o AppendArgs(args)

BuildVenvActivationCommand ==
    "cd ~/prakasa && " \o
    "export PATH=/usr/local/cuda-12.8/bin:$(echo '$PATH' | tr ':' '\\n' | grep -v '/mnt/c' | paste -sd ':' -) && " \o
    "source ./venv/bin/activate"

\* full_command, as the activation, the proxy assignments and the command
FullCommand(env, command) ==
    [via |-> "WSLProcess",
     activation |-> BuildVenvActivationCommand \o " && ",
     proxy |-> IF env.proxy_url # ""
               THEN "HTTP_PROXY='" \o env.proxy_url \o "' HTTPS_PROXY='" \o env.proxy_url \o "' "
               ELSE "",
     command |-> command]

NoExec == [via |-> "none", activation |-> "", proxy |-> "", command |-> <<>>]

\* The words bash makes of a simple command: blanks separate words outside
\* quotes, single quotes keep every character, double quotes keep all but an
\* escaped $ " \, a backslash outside quotes is dropped and keeps the next
\* character, and # at the start of a word opens a comment
RECURSIVE ShellScan(_, _, _, _, _, _)
ShellScan(text, i, mode, cur, open, words) ==
    IF i > Len(text) THEN (IF open THEN Append(words, cur) ELSE words)
    ELSE LET c == text[i] IN
         CASE mode = "single" ->
                 IF c = "'" THEN ShellScan(text, i + 1, "plain", cur, open, words)
                 ELSE ShellScan(text, i + 1, mode, Append(cur, c), open, words)
           [] mode = "double" ->
                 IF c = "\"" THEN ShellScan(text, i + 1, "plain", cur, open, words)
                 ELSE IF c = "\\" /\ i < Len(text) /\ text[i + 1] \in {"$", "\"", "\\"}
                 THEN ShellScan(text, i + 2, mode, Append(cur, text[i + 1]), open, words)
                 ELSE ShellScan(text, i + 1, mode, Append(cur, c), open, words)
           [] OTHER ->
                 IF c \in {" ", "\t", "\n"}
                 THEN ShellScan(text, i + 1, mode, <<>>, FALSE,
                                IF open THEN Append(words, cur) ELSE words)
                 ELSE IF c = "'" THEN ShellScan(text, i + 1, "single", cur, TRUE, words)
                 ELSE IF c = "\"" THEN ShellScan(text, i + 1, "double", cur, TRUE, words)
                 ELSE IF c = "\\"
                 THEN IF i < Len(text)
                      THEN ShellScan(text, i + 2, mode, Append(cur, text[i + 1]), TRUE, words)
                      ELSE ShellScan(text, i + 1, mode, cur, open, words)
                 ELSE IF c = "#" /\ ~open THEN words
                 ELSE ShellScan(text, i + 1, mode, Append(cur, c), TRUE, words)

ShellWords(text) == ShellScan(text, 1, "plain", <<>>, FALSE, <<>>)

\* BaseCommand::Execute with the ExecuteImpl of a model command
ModelExecute(command) ==
    /\ runPc = "start"
    /\ IF ShouldShowHelp(runArgs)
       THEN runPc' = "help" /\ runExec' = NoExec /\ runExit' = CmdSuccess
       ELSE IF ValidateArgsImpl(runArgs) # CmdSuccess
       THEN runPc' = "invalid" /\ runExec' = NoExec /\ runExit' = ValidateArgsImpl(runArgs)
       ELSE IF PrepareEnvironment(GetEnvironmentRequirements(runCmd), runEnv) # CmdSuccess
       THEN /\ runPc' = "no_wsl" /\ runExec' = NoExec
            /\ runExit' = PrepareEnvironment(GetEnvironmentRequirements(runCmd), runEnv)
       ELSE /\ runPc' = "done"
            /\ runExec' = FullCommand(runEnv, command)
            /\ runExit' = IF runEnv.exit_code = 0 THEN CmdSuccess ELSE CmdExecutionError
    /\ UNCHANGED <<instVars, sysVars, cliVars, hostVars, cfgVars, runCmd, runArgs, runEnv>>

ModelRunCommand_Execute == runCmd = "run" /\ ModelExecute(BuildRunCommand(runArgs))

ModelJoinCommand_Execute == runCmd = "join" /\ ModelExecute(BuildJoinCommand(runArgs))

ModelChatCommand_Execute == runCmd = "chat" /\ ModelExecute(BuildChatCommand(runArgs))

\* What the host answers: proxy setting, administrator token, distribution
\* listing, exit code of the subsystem command, result of check's or
\* install's ExecuteImpl
RunEnvs ==
    [proxy_url : ProxyUrls, is_admin : BOOLEAN, listing : WslListings, exit_code : ExitCodes,
     impl_result : {CmdSuccess, CmdEnvironmentError, CmdExecutionError}]

InitRun ==
    /\ InstIdle /\ SysIdle /\ CliIdle /\ HostIdle /\ CfgIdle
    /\ runCmd \in {"run", "join", "chat"}
    /\ runArgs \in SeqsUpTo(ArgPool, MaxArgs)
    /\ runEnv \in RunEnvs /\ ~runEnv.is_admin /\ runEnv.impl_result = CmdSuccess
    /\ runPc = "start" /\ runExec = NoExec /\ runExit = -1

NextRun ==
    \/ ModelRunCommand_Execute
    \/ ModelJoinCommand_Execute
    \/ ModelChatCommand_Execute

SpecRun == InitRun /\ [][NextRun]_vars

\* Execute of a model command has returned
ModelReturned == runCmd \in {"run", "join", "chat"} /\ runPc # "start"

\* the words "prakasa" and the command name
ScriptWords ==
    << <<"p", "r", "a", "k", "a", "s", "a">>,
       CASE runCmd = "run" -> <<"r", "u", "n">> [] runCmd = "join" -> <<"j", "o", "i", "n">> [] OTHER -> <<"c", "h", "a", "t">> >>

\* C13: whenever Execute of run, join or chat has returned on a host whose
\* subsystem is available, one command was executed in the subsystem, and the
\* words the shell makes of it are "prakasa", the command name and then every
\* supplied argument, each once and in the order given.
C13_AllArgumentsPassed ==
    (ModelReturned /\ CheckWSLEnvironment(runEnv)) =>
        /\ runExec.via = "WSLProcess"
        /\ ShellWords(runExec.command) = ScriptWords \o runArgs

-----------------------------------------------------------------------------
(* Properties of PipUpgradeManager::Install *)

\* the kinds of the commands issued so far, in order
KindsIssued == [k \in 1..Len(cmdLog) |-> cmdLog[k].kind]

\* the version query failed: non-zero exit or no output
PipQueryFailed == pipReply.code # 0 \/ pipReply.out = ""

\* a command of that kind was issued; it exited 0; it exited non-zero
WasIssued(kind) == \E k \in 1..Len(cmdLog) : cmdLog[k].kind = kind
ExitedZero(kind) == \E k \in 1..Len(cmdLog) : cmdLog[k].kind = kind /\ cmdLog[k].code = 0
ExitedNonZero(kind) == \E k \in 1..Len(cmdLog) : cmdLog[k].kind = kind /\ cmdLog[k].code # 0

\* C21: throughout PipUpgradeManager::Install the commands come in the order
\* version query, base-package install, upgrade; the base-package install is
\* issued only when the version query failed; once Install has returned, the
\* upgrade was issued exactly when pip was present or the base install exited
\* 0, so never after a failed base install, and the result is Failed with
\* code 24 exactly when an issued step exited non-zero, Success otherwise.
C21_PipInstallSteps ==
    op = "pip.Install" =>
        /\ \/ IsHead(KindsIssued, <<"pip_version", "apt_install_pip", "pip_upgrade">>)
           \/ IsHead(KindsIssued, <<"pip_version", "pip_upgrade">>)
        /\ WasIssued("apt_install_pip") => PipQueryFailed
        /\ pc = "done" =>
              /\ WasIssued("apt_install_pip") <=> PipQueryFailed
              /\ WasIssued("pip_upgrade") <=> (~PipQueryFailed \/ ExitedZero("apt_install_pip"))
              /\ ExitedNonZero("apt_install_pip") => ~WasIssued("pip_upgrade")
              /\ (result.status = kFailed /\ result.failure_code = 24)
                     <=> (ExitedNonZero("apt_install_pip") \/ ExitedNonZero("pip_upgrade"))
              /\ result.status \in {kFailed, kSuccess}
              /\ result.status = kFailed => result.failure_code = 24

\* the version query failed, the base install exited non-zero, no upgrade ran
C21_Witness ==
    /\ op = "pip.Install" /\ pc = "done" /\ PipQueryFailed
    /\ KindsIssued = <<"pip_version", "apt_install_pip">>
    /\ result.status = kFailed /\ result.failure_code = 24

-----------------------------------------------------------------------------
(* Properties of BIOSVirtualizationChecker and NvidiaDriverChecker *)

BIOSChecked == sysChecker = "BIOSVirtualization" /\ sysResult # NoResult

\* systeminfo exited 0 and printed the line
SysteminfoGave(line) == sysProbe.systeminfo.code = 0 /\ Finds(sysProbe.systeminfo.out, line)

\* wsl --status printed one of the failure phrases
PhrasePrinted == \E ph \in failure_phrases : Finds(sysProbe.wsl_status.out, ph)

\* C22: whenever BIOSVirtualizationChecker::Check has returned, the result is
\* Failed with code 20 exactly when systeminfo exited 0 with the "No" line and
\* without the "Yes" line, or wsl --status was run, exited 0 and printed a
\* failure phrase; it is Success in every other case; and wsl --status was run
\* only when systeminfo gave neither the "Yes" nor the "No" line.
C22_BiosFailsOnNegativeEvidence ==
    BIOSChecked =>
        LET negative_line   == SysteminfoGave(FirmwareNo) /\ ~SysteminfoGave(FirmwareYes)
            negative_phrase == /\ WasIssued("wsl_status")
                               /\ sysProbe.wsl_status.code = 0 /\ PhrasePrinted
        IN  /\ sysResult.status \in {kSuccess, kFailed}
            /\ sysResult.status = kFailed <=> (negative_line \/ negative_phrase)
            /\ sysResult.status = kFailed => sysResult.failure_code = 20
            /\ KindsIssued \in {<<"systeminfo">>, <<"systeminfo", "wsl_status">>}
            /\ WasIssued("wsl_status") =>
                   (~SysteminfoGave(FirmwareYes) /\ ~SysteminfoGave(FirmwareNo))

\* systeminfo gave neither line and a failure phrase of wsl --status made the
\* check fail
C22_Witness ==
    /\ BIOSChecked /\ sysProbe.systeminfo.code = 0
    /\ ~Finds(sysProbe.systeminfo.out, FirmwareYes) /\ ~Finds(sysProbe.systeminfo.out, FirmwareNo)
    /\ KindsIssued = <<"systeminfo", "wsl_status">>
    /\ sysProbe.wsl_status.code = 0 /\ PhrasePrinted
    /\ sysResult.status = kFailed /\ sysResult.failure_code = 20

\* neither command lets Check tell the state: no firmware line from systeminfo,
\* no failure phrase from wsl --status
Undetermined ==
    /\ ~Finds(sysProbe.systeminfo.out, FirmwareYes)
    /\ ~Finds(sysProbe.systeminfo.out, FirmwareNo)
    /\ ~PhrasePrinted

\* C23: whenever BIOSVirtualizationChecker::Check has returned and neither
\* command let it tell the state, the result is Success with the message that
\* the state could not be verified, not the message that virtualization is
\* enabled.
C23_UnverifiedIsSaidSo ==
    (BIOSChecked /\ Undetermined) =>
        /\ sysResult.status = kSuccess
        /\ sysResult.message =
              "BIOS virtualization status check completed (unable to verify definitively)"
        /\ sysResult.message # "BIOS virtualization is enabled"

\* nvidia-smi gave no driver version: non-zero exit, or nothing but white space
PrimaryQueryFailed ==
    \/ sysProbe.exit_code # 0
    \/ \A k \in 1..Len(sysProbe.stdout_output) : IsSpace(sysProbe.stdout_output[k])

RegistryLookupFailed == sysProbe.registry \in {"no key", "no value"}

\* C24: whenever NvidiaDriverChecker::Check has returned, the result is Failed
\* with code 20 exactly when the nvidia-smi query failed (non-zero exit, or
\* empty or white-space output) and the registry lookup failed too; the
\* registry was read exactly when the nvidia-smi query had failed, and after
\* it; and a registry lookup that succeeds then gives Success.
C24_DriverFailsWhenBothFail ==
    DriverChecked =>
        /\ (sysResult.status = kFailed /\ sysResult.failure_code = 20)
               <=> (PrimaryQueryFailed /\ RegistryLookupFailed)
        /\ sysResult.status \in {kSuccess, kFailed}
        /\ sysResult.status = kFailed => sysResult.failure_code = 20
        /\ KindsIssued = IF PrimaryQueryFailed THEN <<"nvidia_smi", "registry">>
                         ELSE <<"nvidia_smi">>
        /\ (PrimaryQueryFailed /\ ~RegistryLookupFailed) =>
               sysResult = CreateSuccessResult(
                   "NVIDIA driver installed (registry version: " \o sysProbe.registry \o ")")

\* nvidia-smi exited 0 with a bare newline and the registry held the version
C24_Witness ==
    /\ DriverChecked /\ sysProbe.exit_code = 0 /\ sysProbe.stdout_output = <<"\n">>
    /\ KindsIssued = <<"nvidia_smi", "registry">>
    /\ ~RegistryLookupFailed /\ sysResult.status = kSuccess

-----------------------------------------------------------------------------
(* Properties of HasParallaxProjectGitUpdates *)

UpToDate == CreateSkippedResult("Parallax project is already installed and up to date")

\* updates were reported: Check warned, or Install went on to build a sequence
UpdatesReported ==
    \/ op = "project.Check" /\ pc = "done" /\ result.status = kWarning
    \/ op = "project.Install" /\ pc # "start" /\ is_update_mode

\* C25: updates are reported only when the repository probe, the fetch and the
\* count query all exited 0 and the count parses to a value > 0; and with an
\* importable project, whenever one of them fails, so whenever the remote
\* cannot be fetched, Check returns Skipped "up to date" and Install returns
\* the same Skipped result having built no sequence and issued no command
\* other than the import check and the probes.
C25_UpdatesNeedEveryProbe ==
    /\ UpdatesReported =>
          /\ projHost.revparse = 0 /\ projHost.fetch = 0 /\ projHost.revlist.code = 0
          /\ Stoi(RemoveSpaces(projHost.revlist.out)).ok
          /\ Stoi(RemoveSpaces(projHost.revlist.out)).value > 0
    /\ ( /\ op \in {"project.Check", "project.Install"} /\ pc # "start"
         /\ IsParallaxProjectInstalled(projHost.import)
         /\ ~(ProbesSucceed(projHost) /\ Divergence(projHost) > 0) ) =>
          /\ pc = "done" /\ result = UpToDate
          /\ commands = <<>>
          /\ \A k \in 1..Len(cmdLog) :
                 cmdLog[k].kind \in {"import_check", "rev_parse", "fetch", "rev_list"}
          /\ projHost.fetch # 0 => ~WasIssued("rev_list")

\* an Install on an importable project whose fetch failed, although the count
\* query would have reported commits
C25_Witness ==
    /\ op = "project.Install" /\ pc = "done"
    /\ IsParallaxProjectInstalled(projHost.import)
    /\ projHost.revparse = 0 /\ projHost.fetch # 0
    /\ DivergenceKnown(projHost) /\ Divergence(projHost) > 0
    /\ result = UpToDate /\ KindsIssued = <<"import_check", "rev_parse", "fetch">>

-----------------------------------------------------------------------------
(* BaseCommand::Execute, stage by stage, for the five commands *)

Commands == {"check", "install", "run", "join", "chat"}

\* Arguments for the stage model: the help options, an option and a value
StageArgPool == {DashH, DashDashHelp, <<"-", "m">>, <<"Q">>}

\* the result ExecuteImpl of the command comes to
ExecuteImpl(cmd, env) ==
    IF cmd \in AdminCommands THEN env.impl_result
    ELSE IF env.exit_code = 0 THEN CmdSuccess ELSE CmdExecutionError

\* Execute: if (ShouldShowHelp(context.args)) { ShowHelp(); return Success; }
Execute_HelpTest ==
    /\ runPc = "start"
    /\ IF ShouldShowHelp(runArgs)
       THEN /\ runExec' = <<"ShouldShowHelp", "ShowHelp">>
            /\ runExit' = CmdSuccess /\ runPc' = "done"
       ELSE /\ runExec' = <<"ShouldShowHelp">>
            /\ runPc' = "validate" /\ UNCHANGED runExit
    /\ UNCHANGED <<instVars, sysVars, cliVars, hostVars, cfgVars, runCmd, runArgs, runEnv>>

\* argument validation that lets Execute go on whatever it returns
Execute_ValidateArgsLenient ==
    /\ runPc = "validate"
    /\ runExec' = Append(runExec, "ValidateArgs")
    /\ runPc' = "prepare" /\ UNCHANGED runExit
    /\ UNCHANGED <<instVars, sysVars, cliVars, hostVars, cfgVars, runCmd, runArgs, runEnv>>

\* Execute: result = ValidateArgs(context); return it unless Success
Execute_ValidateArgs ==
    /\ runPc = "validate"
    /\ runExec' = Append(runExec, "ValidateArgs")
    /\ IF ValidateArgs(runCmd, runArgs) # CmdSuccess
       THEN runExit' = ValidateArgs(runCmd, runArgs) /\ runPc' = "done"
       ELSE runPc' = "prepare" /\ UNCHANGED runExit
    /\ UNCHANGED <<instVars, sysVars, cliVars, hostVars, cfgVars, runCmd, runArgs, runEnv>>

\* Execute: result = PrepareEnvironment(context); return it unless Success
Execute_PrepareEnvironment ==
    /\ runPc = "prepare"
    /\ runExec' = Append(runExec, "PrepareEnvironment")
    /\ LET r == PrepareEnvironment(GetEnvironmentRequirements(runCmd), runEnv) IN
       IF r # CmdSuccess
       THEN runExit' = r /\ runPc' = "done"
       ELSE runPc' = "impl" /\ UNCHANGED runExit
    /\ UNCHANGED <<instVars, sysVars, cliVars, hostVars, cfgVars, runCmd, runArgs, runEnv>>

\* Execute: return ExecuteImpl(context)
Execute_ExecuteImpl ==
    /\ runPc = "impl"
    /\ runExec' = Append(runExec, "ExecuteImpl")
    /\ runExit' = ExecuteImpl(runCmd, runEnv)
    /\ runPc' = "done"
    /\ UNCHANGED <<instVars, sysVars, cliVars, hostVars, cfgVars, runCmd, runArgs, runEnv>>

InitCmd ==
    /\ InstIdle /\ SysIdle /\ CliIdle /\ HostIdle /\ CfgIdle
    /\ runCmd \in Commands
    /\ runArgs \in SeqsUpTo(StageArgPool, MaxArgs)
    /\ runEnv \in RunEnvs /\ runEnv.proxy_url = ""
    /\ runPc = "start" /\ runExec = <<>> /\ runExit = -1

NextCmd ==
    \/ Execute_HelpTest
    \/ Execute_ValidateArgs
    \/ Execute_PrepareEnvironment
    \/ Execute_ExecuteImpl

SpecCmd == InitCmd /\ [][NextCmd]_vars

-----------------------------------------------------------------------------
(* Properties of BaseCommand::Execute *)

\* Execute is under way or has returned
InExecute == runCmd \in Commands
Returned == InExecute /\ runPc = "done"

Ran_(stage) == \E k \in 1..Len(runExec) : runExec[k] = stage

HasHelpFlag == \E i \in 1..Len(runArgs) : runArgs[i] \in {DashH, DashDashHelp}

AllStages == <<"ShouldShowHelp", "ValidateArgs", "PrepareEnvironment", "ExecuteImpl">>

\* C26: at every point of Execute the stages run so far are the beginning of
\* help test, ValidateArgs, PrepareEnvironment, ExecuteImpl, or the help test
\* followed by ShowHelp; with --help or -h anywhere in the arguments Execute
\* shows help and returns Success with no later stage run; otherwise
\* ExecuteImpl runs only after ValidateArgs and PrepareEnvironment each ran and
\* returned Success, and a stage that does not return Success is the last one
\* run and its result is what Execute returns.
C26_StagesInOrder ==
    InExecute =>
        /\ IsHead(runExec, AllStages) \/ runExec = <<"ShouldShowHelp", "ShowHelp">>
        /\ (HasHelpFlag /\ runPc # "start") =>
               /\ runExec = <<"ShouldShowHelp", "ShowHelp">>
               /\ runPc = "done" /\ runExit = CmdSuccess
        /\ ~HasHelpFlag => ~Ran_("ShowHelp")
        /\ Ran_("ExecuteImpl") =>
               /\ ValidateArgs(runCmd, runArgs) = CmdSuccess
               /\ PrepareEnvironment(GetEnvironmentRequirements(runCmd), runEnv) = CmdSuccess
        /\ (Ran_("ValidateArgs") /\ ValidateArgs(runCmd, runArgs) # CmdSuccess) =>
               /\ runExec = <<"ShouldShowHelp", "ValidateArgs">>
               /\ runPc = "done" /\ runExit = ValidateArgs(runCmd, runArgs)
        /\ ( /\ Ran_("PrepareEnvironment")
             /\ PrepareEnvironment(GetEnvironmentRequirements(runCmd), runEnv) # CmdSuccess ) =>
               /\ runExec = <<"ShouldShowHelp", "ValidateArgs", "PrepareEnvironment">>
               /\ runPc = "done"
               /\ runExit = PrepareEnvironment(GetEnvironmentRequirements(runCmd), runEnv)
        /\ (Returned /\ Ran_("ExecuteImpl")) =>
               runExec = AllStages /\ runExit = ExecuteImpl(runCmd, runEnv)

\* every stage ran and ExecuteImpl's result came back
C26_Witness ==
    /\ Returned /\ runCmd = "check" /\ runExec = AllStages
    /\ runExit = CmdEnvironmentError /\ runEnv.impl_result = CmdEnvironmentError

\* the distribution listing exited 0 and names the configured distribution
DistributionListed ==
    runEnv.listing.code = 0
    /\ \E k \in 1..Len(runEnv.listing.out) : runEnv.listing.out[k] = "Ubuntu-24.04"

\* PrepareEnvironment ran and the command's requirement was not met
Blocked ==
    /\ Ran_("PrepareEnvironment")
    /\ \/ runCmd \in {"check", "install"} /\ ~runEnv.is_admin
       \/ runCmd \in {"run", "join", "chat"} /\ ~DistributionListed

\* C27: check and install, which need administrator rights, never run
\* ExecuteImpl in a process that is not administrator; run, join and chat,
\* which need the subsystem, never run ExecuteImpl unless the distribution
\* listing exited 0 and names the configured distribution; and when
\* PrepareEnvironment blocks a command, Execute returns EnvironmentError (2).
C27_EnvironmentGate ==
    InExecute =>
        /\ (runCmd \in {"check", "install"} /\ ~runEnv.is_admin) => ~Ran_("ExecuteImpl")
        /\ (runCmd \in {"run", "join", "chat"} /\ ~DistributionListed) => ~Ran_("ExecuteImpl")
        /\ Blocked => (runPc = "done" /\ runExit = 2 /\ runExit = CmdEnvironmentError)

\* run was blocked on a host whose listing exits 0 without the distribution
C27_Witness ==
    /\ Returned /\ runCmd = "run" /\ Blocked
    /\ runEnv.listing.code = 0 /\ runEnv.listing.out = <<"docker-desktop">>
    /\ runExit = CmdEnvironmentError

\* an argument other than a help option is there, and no help option
OnlyOtherArguments ==
    /\ runArgs # <<>>
    /\ \A i \in 1..Len(runArgs) : runArgs[i] \notin {DashH, DashDashHelp}

\* C28: for check and install, whenever the arguments hold an argument other
\* than --help and -h and no help option, Execute returns InvalidArgs (1)
\* straight after ValidateArgs: PrepareEnvironment and ExecuteImpl, and so
\* every component Check or Install, are never run.
C28_NoParametersAccepted ==
    (InExecute /\ runCmd \in {"check", "install"} /\ OnlyOtherArguments) =>
        /\ ~Ran_("PrepareEnvironment") /\ ~Ran_("ExecuteImpl")
        /\ Returned => (runExit = 1 /\ runExit = CmdInvalidArgs)
        /\ runPc \in {"start", "validate", "done"}

\* check -m Q as administrator was refused
C28_Witness ==
    /\ Returned /\ runCmd = "check" /\ runEnv.is_admin
    /\ runArgs = << <<"-", "m">>, <<"Q">> >>
    /\ runExec = <<"ShouldShowHelp", "ValidateArgs">> /\ runExit = CmdInvalidArgs

-----------------------------------------------------------------------------
(* ConfigManager: the configuration store and its file *)

\* Operations on the store after its construction
MaxCfgOps == 3

\* Lines of a configuration file the user wrote
MaxLines == 2

KEY_PROXY_URL == "proxy_url"
KEY_WSL_LINUX_DISTRO == "wsl_linux_distro"
KEY_WSL_INSTALLER_URL == "wsl_installer_url"
KEY_WSL_KERNEL_URL == "wsl_kernel_url"
KEY_PRAKASA_GIT_REPO_URL == "prakasa_git_repo_url"

\* A line or a value is a sequence whose elements are a character or a word,
\* a run of characters none of which is a blank, '=', '#', a quote or a
\* backslash; a key of the map is the sequence of the elements of its name.
builtin_keys ==
    {<<KEY_WSL_LINUX_DISTRO>>, <<KEY_WSL_INSTALLER_URL>>,
     <<KEY_WSL_KERNEL_URL>>, <<KEY_PRAKASA_GIT_REPO_URL>>}

\* ConfigManager::InitDefaultConfig: config_values_ after it, from an empty map
InitDefaultConfig ==
    [key \in builtin_keys |->
        CASE key = <<KEY_WSL_LINUX_DISTRO>> -> <<"Ubuntu-24.04">>
          [] key = <<KEY_WSL_INSTALLER_URL>> ->
                 <<"https://github.com/microsoft/WSL/releases/download/2.4.13/wsl.2.4.13.0.x64.msi">>
          [] key = <<KEY_WSL_KERNEL_URL>> ->
                 <<"https://wslstorestorage.blob.core.windows.net/wslblob/wsl_update_x64.msi">>
          [] key = <<KEY_PRAKASA_GIT_REPO_URL>> ->
                 <<"https://github.com/hetu-project/prakasa.git">>]

\* std::map operator[]: the value of key, empty when the key is not there
At(values, key) == IF key \in DOMAIN values THEN values[key] ELSE <<>>

\* config_values_[key] = value
Put(values, key, value) ==
    [k \in DOMAIN values \cup {key} |-> IF k = key THEN value ELSE values[k]]

Blank(c) == c = " " \/ c = "\t"

\* erase(0, find_first_not_of(" \t")) then erase(find_last_not_of(" \t") + 1)
RECURSIVE TrimLeft(_)
TrimLeft(t) ==
    IF t = <<>> THEN <<>>
    ELSE IF Blank(Head(t)) THEN TrimLeft(Tail(t)) ELSE t

RECURSIVE TrimRight(_)
TrimRight(t) ==
    IF t = <<>> THEN <<>>
    ELSE IF Blank(t[Len(t)]) THEN TrimRight(SubSeq(t, 1, Len(t) - 1)) ELSE t

Trim(t) == TrimRight(TrimLeft(t))

\* ParseKeyValue's loop over the escape sequences of the value
RECURSIVE Unescape(_)
Unescape(value) ==
    IF value = <<>> THEN <<>>
    ELSE IF value[1] = "\\" /\ Len(value) > 1
         THEN LET next == value[2] IN
              << CASE next = "n" -> "\n"
                   [] next = "r" -> "\r"
                   [] next = "t" -> "\t"
                   [] OTHER -> next >> \o Unescape(SubSeq(value, 3, Len(value)))
         ELSE <<value[1]>> \o Unescape(Tail(value))

\* ConfigManager::EscapeValue
RECURSIVE EscapeValue(_)
EscapeValue(value) ==
    IF value = <<>> THEN <<>>
    ELSE LET c == Head(value) IN
         ( CASE c = "\n" -> <<"\\", "n">>
             [] c = "\r" -> <<"\\", "r">>
             [] c = "\t" -> <<"\\", "t">>
             [] c \in {"\\", "\"", "'", "="} -> <<"\\", c>>
             [] OTHER -> <<c>> ) \o EscapeValue(Tail(value))

\* line.find('='): the position of the first '=', 0 when there is none
FindEquals(line) ==
    IF \E i \in 1..Len(line) : line[i] = "="
    THEN CHOOSE i \in 1..Len(line) :
             line[i] = "=" /\ \A j \in 1..(i - 1) : line[j] # "="
    ELSE 0

\* ConfigManager::ParseKeyValue
ParseKeyValue(line) ==
    LET pos == FindEquals(line) IN
    IF pos = 0 THEN [ok |-> FALSE, key |-> <<>>, value |-> <<>>]
    ELSE [ok |-> TRUE,
          key |-> Trim(SubSeq(line, 1, pos - 1)),
          value |-> Unescape(Trim(SubSeq(line, pos + 1, Len(line))))]

\* LoadConfigInternal's loop over the lines of the file
RECURSIVE ReadLines(_, _)
ReadLines(values, lines) ==
    IF lines = <<>> THEN values
    ELSE LET line == Head(lines)
             kv == ParseKeyValue(line)
         IN  IF line = <<>> \/ line[1] = "#" THEN ReadLines(values, Tail(lines))
             ELSE IF kv.ok THEN ReadLines(Put(values, kv.key, kv.value), Tail(lines))
             ELSE ReadLines(values, Tail(lines))

\* the protection loop left out: the values as read
KeepAsRead(values, builtin_defaults) == values

\* LoadConfigInternal's loop over builtin_defaults: an empty value of a
\* built-in key is set back to the value it had before the file was read
RestoreBuiltins(values, builtin_defaults) ==
    [k \in DOMAIN values \cup DOMAIN builtin_defaults |->
        IF k \in DOMAIN builtin_defaults /\ At(values, k) = <<>>
        THEN builtin_defaults[k] ELSE values[k]]

\* config_values_ sorted by key name
KeyOrder ==
    <<<<KEY_PRAKASA_GIT_REPO_URL>>, <<KEY_PROXY_URL>>, <<KEY_WSL_INSTALLER_URL>>,
      <<KEY_WSL_KERNEL_URL>>, <<KEY_WSL_LINUX_DISTRO>>>>

RECURSIVE LinesOf(_, _)
LinesOf(values, keys) ==
    IF keys = <<>> THEN <<>>
    ELSE IF Head(keys) \in DOMAIN values
         THEN << Head(keys) \o <<"=">> \o EscapeValue(values[Head(keys)]) >>
              \o LinesOf(values, Tail(keys))
         ELSE LinesOf(values, Tail(keys))

NoFile == [exists |-> FALSE, lines |-> <<>>]

\* ConfigManager::SaveConfig: the file after it; writable tells whether the
\* file could be opened for writing
SaveConfig(values, file, writable) ==
    IF ~writable THEN file
    ELSE [exists |-> TRUE,
          lines |-> << <<"#", " ", "Parallax", " ", "Configuration", " ", "File">>,
                       <<"#", " ", "Generated", " ", "automatically,", " ", "do", " ",
                         "not", " ", "edit", " ", "manually">>,
                       <<>> >> \o LinesOf(values, KeyOrder)]

\* ConfigManager::LoadConfigInternal: the map and the file after it
LoadConfigInternal(values, file, writable) ==
    IF ~file.exists
    THEN [values |-> values, file |-> SaveConfig(values, file, writable)]
    ELSE LET builtin_defaults == [k \in builtin_keys |-> At(values, k)]
         IN  [values |-> RestoreBuiltins(ReadLines(values, file.lines), builtin_defaults),
              file |-> file]

\* Lines a user may have written: a comment, an empty and a blank value of a
\* built-in key, and another distribution
LinePool ==
    {<<"#", "edited">>,
     <<KEY_WSL_LINUX_DISTRO, "=">>,
     <<KEY_PRAKASA_GIT_REPO_URL, " ", "=", " ", "\t">>,
     <<KEY_WSL_LINUX_DISTRO, " ", "=", " ", "Ubuntu-22.04">>}

\* Values handed to SetConfigValue
ValuePool == {<<>>, <<"a", "=", "b", "\\">>}

LogEntry(name, key, value, ok) ==
    [op |-> name, key |-> key, value |-> value, ok |-> ok]

\* ConfigManager::ConfigManager
ConfigManager_Construct ==
    /\ cfgPc = "unbuilt"
    /\ \E writable \in BOOLEAN :
         LET loaded == LoadConfigInternal(InitDefaultConfig, config_file, writable) IN
         /\ config_values_' = loaded.values
         /\ config_file' = loaded.file
         /\ cfgLog' = <<LogEntry("load", <<>>, <<>>, TRUE)>>
    /\ cfgPc' = "ready"
    /\ UNCHANGED <<instVars, sysVars, cliVars, hostVars, runVars>>

\* ConfigManager::LoadConfig with the default path
ConfigManager_LoadConfig ==
    /\ cfgPc = "ready" /\ Len(cfgLog) <= MaxCfgOps
    /\ \E writable \in BOOLEAN :
         LET loaded == LoadConfigInternal(InitDefaultConfig, config_file, writable) IN
         /\ config_values_' = loaded.values
         /\ config_file' = loaded.file
         /\ cfgLog' = Append(cfgLog, LogEntry("load", <<>>, <<>>, TRUE))
    /\ UNCHANGED <<instVars, sysVars, cliVars, hostVars, runVars, cfgPc>>

\* ConfigManager::SetConfigValue
ConfigManager_SetConfigValue ==
    /\ cfgPc = "ready" /\ Len(cfgLog) <= MaxCfgOps
    /\ \E key \in builtin_keys, value \in ValuePool :
         /\ config_values_' = Put(config_values_, key, value)
         /\ cfgLog' = Append(cfgLog, LogEntry("set", key, value, TRUE))
    /\ UNCHANGED <<instVars, sysVars, cliVars, hostVars, runVars, cfgPc, config_file>>

\* ConfigManager::SaveConfig with the default path
ConfigManager_SaveConfig ==
    /\ cfgPc = "ready" /\ Len(cfgLog) <= MaxCfgOps
    /\ \E writable \in BOOLEAN :
         /\ config_file' = SaveConfig(config_values_, config_file, writable)
         /\ cfgLog' = Append(cfgLog, LogEntry("save", <<>>, <<>>, writable))
    /\ UNCHANGED <<instVars, sysVars, cliVars, hostVars, runVars, cfgPc, config_values_>>

InitCfg ==
    /\ InstIdle /\ SysIdle /\ CliIdle /\ HostIdle /\ RunIdle
    /\ config_values_ = <<>>
    /\ config_file \in {NoFile} \cup
           {[exists |-> TRUE, lines |-> l] : l \in SeqsUpTo(LinePool, MaxLines)}
    /\ cfgPc = "unbuilt" /\ cfgLog = <<>>

NextCfg ==
    \/ ConfigManager_Construct
    \/ ConfigManager_LoadConfig
    \/ ConfigManager_SetConfigValue
    \/ ConfigManager_SaveConfig

SpecCfg == InitCfg /\ [][NextCfg]_vars

-----------------------------------------------------------------------------
(* Properties of the configuration store *)

\* the store's last operation was a load: the constructor's or LoadConfig
JustLoaded == cfgPc = "ready" /\ cfgLog[Len(cfgLog)].op = "load"

\* the file gives key a value that is not empty: some line of it, which is
\* neither empty nor a comment, has the key left of its first '=' and right
\* of it something else than blanks, and no later line gives the key again
RECURSIVE AllBlank(_)
AllBlank(t) == t = <<>> \/ (Blank(Head(t)) /\ AllBlank(Tail(t)))

Gives(line, key) ==
    /\ line # <<>> /\ line[1] # "#"
    /\ \E i \in 1..Len(line) :
         /\ line[i] = "=" /\ \A j \in 1..(i - 1) : line[j] # "="
         /\ \E a \in 0..(i - 1), b \in 0..(i - 1) :
              /\ a + Len(key) + b = i - 1
              /\ SubSeq(line, a + 1, a + Len(key)) = key
              /\ AllBlank(SubSeq(line, 1, a))
              /\ AllBlank(SubSeq(line, a + Len(key) + 1, i - 1))

GivesEmpty(line, key) ==
    Gives(line, key) /\ AllBlank(SubSeq(line, FindEquals(line) + 1, Len(line)))

FileGivesValue(key) ==
    /\ config_file.exists
    /\ \E n \in 1..Len(config_file.lines) :
         /\ Gives(config_file.lines[n], key) /\ ~GivesEmpty(config_file.lines[n], key)
         /\ \A later \in (n + 1)..Len(config_file.lines) :
                ~Gives(config_file.lines[later], key)

\* the log ends with: key set to the empty string, saved, loaded
EmptiedSavedReloaded(key) ==
    /\ Len(cfgLog) >= 3 /\ JustLoaded
    /\ cfgLog[Len(cfgLog) - 1].op = "save" /\ cfgLog[Len(cfgLog) - 1].ok
    /\ cfgLog[Len(cfgLog) - 2].op = "set"
    /\ cfgLog[Len(cfgLog) - 2].key = key /\ cfgLog[Len(cfgLog) - 2].value = <<>>

\* C29: after every load, the constructor's or LoadConfig, each of
\* wsl_linux_distro, wsl_installer_url, wsl_kernel_url and prakasa_git_repo_url
\* is in the store with a value that is not empty, and it is the default
\* whenever the file gives the key no value or an empty one; setting a
\* built-in key to the empty string, saving and loading again leaves the key
\* at its default.
C29_BuiltinKeysProtected ==
    \A key \in { <<"wsl_linux_distro">>, <<"wsl_installer_url">>,
                 <<"wsl_kernel_url">>, <<"prakasa_git_repo_url">> } :
        /\ JustLoaded =>
               /\ key \in DOMAIN config_values_
               /\ config_values_[key] # <<>>
               /\ ~FileGivesValue(key) => config_values_[key] = InitDefaultConfig[key]
        /\ EmptiedSavedReloaded(key) => config_values_[key] = InitDefaultConfig[key]

\* the distribution was set to the empty string, written to the file as
\* such, and is the default again after the load
C29_Witness ==
    /\ EmptiedSavedReloaded(<<"wsl_linux_distro">>)
    /\ \E n \in 1..Len(config_file.lines) :
           config_file.lines[n] = <<"wsl_linux_distro", "=">>
    /\ config_values_[<<"wsl_linux_distro">>] = <<"Ubuntu-24.04">>
====
